---------------------------- MODULE Spec2Model ----------------------------
(***************************************************************************)
(* A model of go-finance-manager's analyzer package                        *)
(* (src/internal/analyzer/analyzer.go) and of its main program: the        *)
(* chunker, the summary                                                    *)
(* computation, the LLM client with its retry loop and call budget, the    *)
(* extraction engine with its recursive repair, and the categorization     *)
(* engine with its batches.                                                *)
(*                                                                         *)
(* Twelve specifications share the variables:                              *)
(*   SpecChunk    splitTextForExtraction applied to bounded texts          *)
(*   SpecSummary  calculateSummary applied to bounded transaction lists    *)
(*   SpecParse    the reply parsers applied to bounded reply texts         *)
(*   SpecFence    the same applied to reply texts with fenced blocks       *)
(*   SpecApply    parseCategorizationResponse applied to bounded batches   *)
(*   Spec         the Analyzer as a state machine driven by its callers    *)
(*                and by the completion service                            *)
(*   SpecRepair   one extraction of one chunk, followed through the whole  *)
(*                of its recursive repair                                  *)
(*   SpecIdem     two extractions of one text in dry-run mode              *)
(*   SpecConcat   one extraction of a document of short chunks, the        *)
(*                replies of its sends recorded                            *)
(*   SpecRun      one run of main (cmd/manager/main.go), the calls it      *)
(*                makes taken by their results                             *)
(*   SpecLive     one call of either public method run to its return,      *)
(*                under weak fairness of the steps of the running call     *)
(*   SpecTyped    one reply of typed records parsed and summarized         *)
(***************************************************************************)
EXTENDS Integers, Sequences, FiniteSets, TLC

\* The field names of the model's records.  TLC keeps the fields of a record in
\* the order in which the names first occur in the module; they occur here first,
\* and every record below lists its fields in this order.
FieldNames ==
    [s |-> 0, nl |-> 0,
     Date |-> 0, Description |-> 0, Amount |-> 0, Type |-> 0, Balance |-> 0,
     Category |-> 0, Subcategory |-> 0, Confidence |-> 0, RawText |-> 0, Source |-> 0,
     StartDate |-> 0, EndDate |-> 0, CategoryTotals |-> 0, TotalIncome |-> 0,
     TotalExpenses |-> 0, NetAmount |-> 0,
     form |-> 0, recs |-> 0,
     date |-> 0, description |-> 0, amount |-> 0, type |-> 0,
     index |-> 0, category |-> 0, subcategory |-> 0, confidence |-> 0,
     st |-> 0, attempt |-> 0,
     op |-> 0, valid |-> 0, txs |-> 0, batch |-> 0, err |-> 0, reply |-> 0,
     k |-> 0, lo |-> 0, hi |-> 0, depth |-> 0, pc |-> 0, leftTx |-> 0, leftErr |-> 0]

VARIABLES
    \* ---- chunker (SpecChunk)
    text,           \* the input text, a sequence of one-character strings
    chunkSize,      \* maxChunkSize
    finalChunks,    \* what splitTextForExtraction returned
    nlBefore,       \* nlBefore[k]: the line split consumed a newline right before chunk k
    cphase,         \* "input" | "done"
    \* ---- summary (SpecSummary)
    sumTxs,         \* the transactions handed to calculateSummary
    summary,        \* the SummaryStats it returned
    sphase,         \* "off" | "reply" | "input" | "done"
    \* ---- response parser (SpecParse)
    content,        \* the text of a reply, a sequence of characters
    scan,           \* what findJSONArray returned for the trimmed text ("" when none)
    arr,            \* what extractJSONFromResponse returned ("" with its error)
    fallback,       \* what buildJSONArrayFromObjects returned ("" with its error)
    jsonContent,    \* the JSON text parseExtractionResponse goes on to unmarshal
    perr,           \* "none" | "nojson": the parser's error
    pphase,         \* "input" | "done"
    \* ---- index mapping (SpecApply)
    abatch,         \* the batch handed to parseCategorizationResponse
    aresults,       \* the CategorizationResult list of the reply
    aout,           \* the batch afterwards, with the error returned
    aphase,         \* "input" | "done"
    \* ---- the Analyzer (Spec): its fields
    dryRun,         \* Analyzer.dryRun
    onlyFirstChunk, \* Analyzer.onlyFirstChunk
    maxRequests,    \* Analyzer.maxRequests
    requestsMade,   \* Analyzer.requestsMade
    \* ---- the running call of a public method
    op,             \* "idle" | "extract" | "categorize"
    source,         \* ExtractTransactionsFromText: its source argument
    chunks,         \* ... its chunks, after the onlyFirstChunk cut
    ci,             \* ... the index of the chunk being processed (1-based)
    allTransactions,\* ... its accumulator
    stack,          \* the frames of extractFromChunkRecursive, innermost last
    rv,             \* the value a frame returned to its caller, not yet consumed
    transactions,   \* CategorizeTransactions: the list it mutates in place
    bi,             \* ... its loop variable i (0-based start of the batch)
    cpc,            \* ... "call" | "http" | "recv": where categorizeBatch is
    ret,            \* what the last finished call returned
    \* ---- callClaudeAPI
    send,           \* the send in progress: its attempt, its result once returned
    trace,          \* the outcomes of the HTTP attempts of the current send
    waits,          \* the backoff sleeps (seconds) of the current send
    posts,          \* HTTP POSTs issued since construction
    \* ---- history of the calls of ExtractTransactionsFromText (SpecIdem)
    callNo,         \* how many calls were begun
    firstDoc,       \* the document of the first call
    firstRet,       \* what the first call returned, once the second is begun
    received,       \* the replies the sends of the call returned, in order (SpecConcat)
    \* ---- main (SpecRun): one run of the program
    mpc,            \* where main is: "load" | "init" | "docs" | "count" | "categorize" | "report" | "exit"
    nPDFs,          \* len(pdfLoader.PDFs)
    di,             \* the documents the loop is done with
    collected,      \* main's allTransactions: <<document, number>> per transaction
    skipped,        \* the documents the loop left with a warning
    catWarned,      \* CategorizeTransactions failed and main printed its warning
    reported,       \* the transactions of the reports GenerateReports wrote
    exit,           \* "none" | "fatal" | "notx" | "done": how the process ended
    cause           \* what log.Fatalf reported: "none" | "load" | "config" | "report"

chunkVars == <<text, chunkSize, finalChunks, nlBefore, cphase>>
sumVars == <<sumTxs, summary, sphase>>
cfgVars == <<dryRun, onlyFirstChunk, maxRequests>>
extVars == <<source, chunks, ci, allTransactions, stack, rv>>
catVars == <<transactions, bi, cpc>>
sendVars == <<send, trace, waits, posts>>
histVars == <<callNo, firstDoc, firstRet, received>>
runVars == <<mpc, nPDFs, di, collected, skipped, catWarned, reported, exit, cause>>
parseVars == <<content, scan, arr, fallback, jsonContent, perr, pphase>>
applyVars == <<abatch, aresults, aout, aphase>>
funVars == <<chunkVars, sumVars, parseVars, applyVars, runVars>>
anVars == <<cfgVars, requestsMade, op, extVars, catVars, ret, sendVars, histVars>>
vars == <<funVars, anVars>>

-----------------------------------------------------------------------------
(* Bounds of the model                                                     *)

\* lines per input text of the chunker
MaxLines == 3
\* largest maxChunkSize tried
MaxChunkSize == 12
\* transactions per list handed to calculateSummary
MaxSumTxs == 2
\* chunks per document
MaxChunks == 2
\* largest call cap tried
MaxCap == 2
\* sends counted by requestsMade in a run of the model
MaxSends == 3
\* tokens per reply text handed to the response parser
MaxTokens == 4
\* tokens per reply text with fenced blocks
MaxFenceTokens == 6
\* sends followed in a run of recursive repair
MaxRepairSends == 16
\* chunks of the document whose replies are recorded
MaxConcatChunks == 3
\* PDF files in the input folder of a run
MaxPDFs == 3
\* transactions extracted from one document of a run
MaxDocTxs == 2
\* transactions per batch handed to parseCategorizationResponse
MaxBatch == 5
\* results per reply handed to parseCategorizationResponse
MaxResults == 4
\* records per reply of the typed records
MaxTypedRecs == 2

-----------------------------------------------------------------------------
(* Sequence helpers                                                        *)

RECURSIVE SumSeq(_)
SumSeq(s) == IF s = <<>> THEN 0 ELSE Head(s) + SumSeq(Tail(s))

SeqsUpTo(S, n) == UNION {[1..k -> S] : k \in 0..n}

-----------------------------------------------------------------------------
(* Chunker: splitTextForExtraction, analyzer.go 675-712                    *)

NL == "\n"
\* the characters strings.TrimSpace strips (those that occur in the model's texts)
Whitespace == {" ", "\t"}
\* the page marker prefix "--- Page "
PageMarker == <<"-", "-", "-", " ", "P", "a", "g", "e", " ">>

\* strings.Split(text, "\n"): the lines of text, the newlines removed
RECURSIVE SplitLines(_, _)
SplitLines(s, cur) ==
    IF s = <<>> THEN <<cur>>
    ELSE IF Head(s) = NL THEN <<cur>> \o SplitLines(Tail(s), <<>>)
    ELSE SplitLines(Tail(s), Append(cur, Head(s)))

\* strings.TrimSpace
RECURSIVE TrimLeft(_)
TrimLeft(s) ==
    IF s # <<>> /\ Head(s) \in Whitespace THEN TrimLeft(Tail(s)) ELSE s

RECURSIVE TrimRight(_)
TrimRight(s) ==
    IF s # <<>> /\ s[Len(s)] \in Whitespace
    THEN TrimRight(SubSeq(s, 1, Len(s) - 1)) ELSE s

TrimSpace(s) == TrimRight(TrimLeft(s))

\* strings.HasPrefix
HasPrefix(s, p) == Len(s) >= Len(p) /\ SubSeq(s, 1, Len(p)) = p

IsPageLine(line) == HasPrefix(TrimSpace(line), PageMarker)

\* The loop over the lines (682-695).  The state of the loop is the list of
\* chunks flushed so far (done) and the builder `current`; each chunk is tagged with
\* nl: whether strings.Split consumed a newline right before its first line
\* (the flush happened before a line that is not the first line of the text).
RECURSIVE LinePass(_, _, _, _, _, _)
LinePass(lines, j, size, done, current, curNl) ==
    IF j > Len(lines)
    THEN IF Len(current) > 0
         THEN Append(done, [s |-> current, nl |-> curNl])
         ELSE done
    ELSE LET line == lines[j]
             flush == Len(current) + Len(line) + 1 > size /\ IsPageLine(line)
             flushed == IF flush
                        THEN Append(done, [s |-> current, nl |-> curNl])
                        ELSE done
             cur1 == IF flush THEN <<>> ELSE current
             nl1 == IF flush THEN j > 1 ELSE curNl
             cur2 == IF Len(cur1) > 0 THEN Append(cur1, NL) ELSE cur1
         IN LinePass(lines, j + 1, size, flushed, cur2 \o line, nl1)

\* The hard split of one chunk (703-709): slices of `size` characters
RECURSIVE HardSplitNoop(_, _)
HardSplitNoop(c, size) == <<c>>

RECURSIVE HardSplit(_, _)
HardSplit(c, size) ==
    IF Len(c) <= size THEN <<c>>
    ELSE <<SubSeq(c, 1, size)>> \o HardSplit(SubSeq(c, size + 1, Len(c)), size)

\* The final loop (697-710) over the tagged chunks
RECURSIVE FinalPass(_, _)
FinalPass(cs, size) ==
    IF cs = <<>> THEN <<>>
    ELSE LET c == Head(cs)
             pieces == HardSplit(c.s, size)
         IN [k \in 1..Len(pieces) |->
                [s |-> pieces[k], nl |-> IF k = 1 THEN c.nl ELSE FALSE]]
            \o FinalPass(Tail(cs), size)

splitTagged(t, size) ==
    IF Len(t) <= size THEN <<[s |-> t, nl |-> FALSE]>>
    ELSE FinalPass(LinePass(SplitLines(t, <<>>), 1, size, <<>>, <<>>, FALSE), size)

splitTextForExtraction(t, size) ==
    LET tagged == splitTagged(t, size) IN [k \in 1..Len(tagged) |-> tagged[k].s]

\* the chunks put back together, a newline reinserted where one was consumed
RECURSIVE Rebuild(_, _, _)
Rebuild(cs, nls, k) ==
    IF k > Len(cs) THEN <<>>
    ELSE (IF nls[k] THEN <<NL>> ELSE <<>>) \o cs[k] \o Rebuild(cs, nls, k + 1)

\* the input lines of the bounded texts
LineSet ==
    { <<>>,
      <<"a">>,
      <<"a", "b", "c">>,
      <<"-", "-", "-">>,
      PageMarker \o <<"1">>,
      <<" ">> \o PageMarker \o <<"2">> }

RECURSIVE JoinLines(_)
JoinLines(ls) ==
    IF Len(ls) = 1 THEN ls[1] ELSE ls[1] \o <<NL>> \o JoinLines(Tail(ls))

ChunkInit ==
    /\ \E ls \in SeqsUpTo(LineSet, MaxLines) \ {<<>>} : text = JoinLines(ls)
    /\ chunkSize \in 1..MaxChunkSize
    /\ finalChunks = <<>>
    /\ nlBefore = <<>>
    /\ cphase = "input"

ChunkIdle ==
    /\ text = <<>>
    /\ chunkSize = 1
    /\ finalChunks = <<>>
    /\ nlBefore = <<>>
    /\ cphase = "off"

SplitText ==
    /\ cphase = "input"
    /\ LET tagged == splitTagged(text, chunkSize)
       IN /\ finalChunks' = splitTextForExtraction(text, chunkSize)
          /\ nlBefore' = [k \in 1..Len(tagged) |-> tagged[k].nl]
    /\ cphase' = "done"
    /\ UNCHANGED <<text, chunkSize, sumVars, parseVars, applyVars, runVars, anVars>>

-----------------------------------------------------------------------------
(* Summary: calculateSummary, analyzer.go 861-900                          *)

Debit == "Debit"
Credit == "Credit"

Min(a, b) == IF a < b THEN a ELSE b
Max(a, b) == IF a > b THEN a ELSE b

\* the loop 874-893, folded over the list
RECURSIVE SummaryLoop(_, _)
SummaryLoop(txs, acc) ==
    IF txs = <<>> THEN acc
    ELSE LET tx == Head(txs)
             cats == IF tx.Category # ""
                     THEN IF tx.Category \in DOMAIN acc.CategoryTotals
                          THEN [acc.CategoryTotals EXCEPT ![tx.Category] = @ + tx.Amount]
                          ELSE acc.CategoryTotals @@ (tx.Category :> tx.Amount)
                     ELSE acc.CategoryTotals
         IN SummaryLoop(Tail(txs),
                [acc EXCEPT !.StartDate = Min(@, tx.Date),
                            !.EndDate = Max(@, tx.Date),
                            !.CategoryTotals = cats,
                            !.TotalIncome = IF tx.Type = Credit THEN @ + tx.Amount ELSE @,
                            !.TotalExpenses = IF tx.Type = Credit THEN @ ELSE @ + tx.Amount])

EmptyTotals == [c \in {} |-> 0]

calculateSummary(txs) ==
    IF Len(txs) = 0
    THEN [StartDate |-> 0, EndDate |-> 0, CategoryTotals |-> EmptyTotals,
          TotalIncome |-> 0, TotalExpenses |-> 0, NetAmount |-> 0]
    ELSE LET s == SummaryLoop(txs,
                    [StartDate |-> txs[1].Date, EndDate |-> txs[1].Date,
                     CategoryTotals |-> EmptyTotals,
                     TotalIncome |-> 0, TotalExpenses |-> 0, NetAmount |-> 0])
         IN [s EXCEPT !.NetAmount = s.TotalIncome - s.TotalExpenses]

\* the transactions of the bounded lists: date (a day number), amount, type, category
SumAmounts == {-50, 0, 200}
SumTx == [Date : {1, 2}, Amount : SumAmounts, Type : {Debit, Credit},
          Category : {"", "Food"}]

SumInit ==
    /\ sumTxs \in SeqsUpTo(SumTx, MaxSumTxs)
    /\ summary = calculateSummary(<<>>)
    /\ sphase = "input"

SumIdle ==
    /\ sumTxs = <<>>
    /\ summary = calculateSummary(<<>>)
    /\ sphase = "off"

CalculateSummary ==
    /\ sphase = "input"
    /\ summary' = calculateSummary(sumTxs)
    /\ sphase' = "done"
    /\ UNCHANGED <<sumTxs, chunkVars, parseVars, applyVars, runVars, anVars>>

-----------------------------------------------------------------------------
(* Response parser: extractJSONFromResponse, analyzer.go 311-380, and      *)
(* buildJSONArrayFromObjects, analyzer.go 385-447.  A text is a sequence   *)
(* of characters, each character a string.                                 *)

Quote == "\""
Backslash == "\\"
\* the rune U+015B (a Latin small s with acute), whose low byte is that of '['
SAcute == "U+015B"
\* the backquote character
Tick == "backquote"
\* three backquotes: a code fence
Fence == <<Tick, Tick, Tick>>
FenceJSON == Fence \o <<"j", "s", "o", "n">>

\* the code points of the characters findJSONArray tests for, and of SAcute
CodePoint(r) ==
    CASE r = Quote -> 34
      [] r = "[" -> 91
      [] r = Backslash -> 92
      [] r = "]" -> 93
      [] r = SAcute -> 347
      [] OTHER -> 0

\* 320-321: for i, r := range s { ch := byte(r) ...: the rune is cut to its low
\* eight bits before it is compared with the byte c
ByteIs(r, c) == CodePoint(r) % 256 = CodePoint(c)

\* 315-355: findJSONArray; the span found, or "" when there is none.
\* start is 1-based here, 0 standing for the code's -1.
RECURSIVE ScanArray(_, _, _, _, _, _)
ScanArray(s, i, inString, escaped, depth, start) ==
    IF i > Len(s) THEN <<>>
    ELSE IF inString
    THEN IF escaped THEN ScanArray(s, i + 1, TRUE, FALSE, depth, start)
         ELSE IF ByteIs(s[i], Backslash) THEN ScanArray(s, i + 1, TRUE, TRUE, depth, start)
         ELSE ScanArray(s, i + 1, ~ByteIs(s[i], Quote), FALSE, depth, start)
    ELSE IF ByteIs(s[i], Quote) THEN ScanArray(s, i + 1, TRUE, FALSE, depth, start)
    ELSE IF ByteIs(s[i], "[")
    THEN ScanArray(s, i + 1, FALSE, FALSE, depth + 1, IF depth = 0 THEN i ELSE start)
    ELSE IF ByteIs(s[i], "]") /\ depth > 0
    THEN IF depth = 1 /\ start # 0
         THEN SubSeq(s, start, i)
         ELSE ScanArray(s, i + 1, FALSE, FALSE, depth - 1, start)
    ELSE ScanArray(s, i + 1, FALSE, FALSE, depth, start)

findJSONArray(s) == ScanArray(s, 1, FALSE, FALSE, 0, 0)

\* strings.Index, 1-based, 0 when pat does not occur
RECURSIVE IndexFrom(_, _, _)
IndexFrom(s, pat, i) ==
    IF i + Len(pat) - 1 > Len(s) THEN 0
    ELSE IF SubSeq(s, i, i + Len(pat) - 1) = pat THEN i
    ELSE IndexFrom(s, pat, i + 1)

Index(s, pat) == IndexFrom(s, pat, 1)

\* 362-377: the array of the first block opened by `open` and closed by a fence
FencedArray(c, open) ==
    LET start == Index(c, open)
        rest == SubSeq(c, start + Len(open), Len(c))
        end == Index(rest, Fence)
    IN IF start = 0 \/ end = 0 THEN <<>>
       ELSE findJSONArray(SubSeq(rest, 1, end - 1))

\* 311-380: the array, or "" with the no-JSON-array error
extractJSONFromResponse(c0) ==
    LET c == TrimSpace(c0)
        whole == findJSONArray(c)
        tagged == FencedArray(c, FenceJSON)
    IN IF whole # <<>> THEN whole
       ELSE IF tagged # <<>> THEN tagged
       ELSE FencedArray(c, Fence)

\* 388-392: every match of the pattern (a fence, letters, anything, lazily, and
\* a fence) removed: from a fence to the next fence that begins after it,
\* repeatedly, left to right
RECURSIVE RemoveFences(_)
RemoveFences(s) ==
    LET p == Index(s, Fence)
        rest == SubSeq(s, p + 3, Len(s))
        c == Index(rest, Fence)
    IN IF p = 0 \/ c = 0 THEN s
       ELSE SubSeq(s, 1, p - 1) \o RemoveFences(SubSeq(rest, c + 3, Len(rest)))

\* 394-433: the top-level balanced {...} spans outside string literals
RECURSIVE ScanObjects(_, _, _, _, _, _, _)
ScanObjects(s, i, inString, escaped, depth, start, objects) ==
    IF i > Len(s) THEN objects
    ELSE IF inString
    THEN IF escaped THEN ScanObjects(s, i + 1, TRUE, FALSE, depth, start, objects)
         ELSE IF s[i] = Backslash
         THEN ScanObjects(s, i + 1, TRUE, TRUE, depth, start, objects)
         ELSE ScanObjects(s, i + 1, s[i] # Quote, FALSE, depth, start, objects)
    ELSE IF s[i] = Quote THEN ScanObjects(s, i + 1, TRUE, FALSE, depth, start, objects)
    ELSE IF s[i] = "{"
    THEN ScanObjects(s, i + 1, FALSE, FALSE, depth + 1,
                     IF depth = 0 THEN i ELSE start, objects)
    ELSE IF s[i] = "}" /\ depth > 0
    THEN IF depth = 1 /\ start # 0
         THEN ScanObjects(s, i + 1, FALSE, FALSE, 0, 0,
                          Append(objects, SubSeq(s, start, i)))
         ELSE ScanObjects(s, i + 1, FALSE, FALSE, depth - 1, start, objects)
    ELSE ScanObjects(s, i + 1, FALSE, FALSE, depth, start, objects)

\* strings.Join
RECURSIVE Join(_, _)
Join(ss, sep) ==
    IF ss = <<>> THEN <<>>
    ELSE IF Len(ss) = 1 THEN ss[1]
    ELSE ss[1] \o sep \o Join(Tail(ss), sep)

\* json.Unmarshal (443, 477) first checks that the text is valid JSON.  The syntax
\* check, for the characters of the model's texts: each operator gives the index
\* after what it read, 0 when the text is not valid there.
DigitChars == {"1", "2"}
EscapeChars == {Quote, Backslash, "/", "b", "f", "n", "r", "t"}

RECURSIVE SkipSpace(_, _)
SkipSpace(s, i) == IF i <= Len(s) /\ s[i] = " " THEN SkipSpace(s, i + 1) ELSE i

\* the rest of a string literal, i being inside it
RECURSIVE StringBody(_, _)
StringBody(s, i) ==
    IF i > Len(s) THEN 0
    ELSE IF s[i] = Quote THEN i + 1
    ELSE IF s[i] = Backslash
    THEN IF i + 1 <= Len(s) /\ s[i + 1] \in EscapeChars THEN StringBody(s, i + 2) ELSE 0
    ELSE StringBody(s, i + 1)

RECURSIVE Digits(_, _)
Digits(s, i) == IF i <= Len(s) /\ s[i] \in DigitChars THEN Digits(s, i + 1) ELSE i

RECURSIVE Value(_, _), Elements(_, _), Members(_, _)
Value(s, i0) ==
    LET i == SkipSpace(s, i0)
        j == SkipSpace(s, i + 1)
    IN IF i > Len(s) THEN 0
       ELSE IF s[i] = Quote THEN StringBody(s, i + 1)
       ELSE IF s[i] \in DigitChars THEN Digits(s, i)
       ELSE IF s[i] = "["
       THEN IF j <= Len(s) /\ s[j] = "]" THEN j + 1 ELSE Elements(s, i + 1)
       ELSE IF s[i] = "{"
       THEN IF j <= Len(s) /\ s[j] = "}" THEN j + 1 ELSE Members(s, i + 1)
       ELSE 0

\* the elements of an array and its closing bracket
Elements(s, i) ==
    LET j == Value(s, i)
        k == SkipSpace(s, j)
    IN IF j = 0 THEN 0
       ELSE IF k > Len(s) THEN 0
       ELSE IF s[k] = "," THEN Elements(s, k + 1)
       ELSE IF s[k] = "]" THEN k + 1
       ELSE 0

\* the members of an object and its closing brace
Members(s, i0) ==
    LET i == SkipSpace(s, i0)
        j == IF i <= Len(s) /\ s[i] = Quote THEN StringBody(s, i + 1) ELSE 0
        c == SkipSpace(s, j)
        v == IF j # 0 /\ c <= Len(s) /\ s[c] = ":" THEN Value(s, c + 1) ELSE 0
        k == SkipSpace(s, v)
    IN IF v = 0 THEN 0
       ELSE IF k > Len(s) THEN 0
       ELSE IF s[k] = "," THEN Members(s, k + 1)
       ELSE IF s[k] = "}" THEN k + 1
       ELSE 0

ValidJSON(s) ==
    LET j == Value(s, 1) IN j # 0 /\ SkipSpace(s, j) = Len(s) + 1

\* the text is one valid JSON array
ValidJSONArray(s) ==
    LET i == SkipSpace(s, 1) IN i <= Len(s) /\ s[i] = "[" /\ ValidJSON(s)

\* every element from i0 on, in a valid array, is an object
RECURSIVE ObjectsFrom(_, _)
ObjectsFrom(s, i0) ==
    LET i == SkipSpace(s, i0)
        k == SkipSpace(s, Value(s, i))
    IN s[i] = "{" /\ (s[k] = "]" \/ ObjectsFrom(s, k + 1))

\* 442-443: json.Unmarshal into []map[string]interface{} succeeds
UnmarshalsToObjects(s) ==
    /\ ValidJSONArray(s)
    /\ LET i == SkipSpace(s, 1)
           j == SkipSpace(s, i + 1)
       IN s[j] = "]" \/ ObjectsFrom(s, i + 1)

\* 385-447: the synthesized array, or "" with an error
buildJSONArrayFromObjects(c) ==
    LET cleaned == IF Index(c, Fence) # 0 THEN RemoveFences(c) ELSE c
        objects == ScanObjects(cleaned, 1, FALSE, FALSE, 0, 0, <<>>)
        array == <<"[">> \o Join(objects, <<",">>) \o <<"]">>
    IN IF Len(objects) = 0 THEN <<>>
       ELSE IF UnmarshalsToObjects(array) THEN array
       ELSE <<>>

\* the tokens the bounded reply texts are made of
ObjectA == <<"{", Quote, "a", Quote, ":", "1", "}">>
ObjectB == <<"{", Quote, "b", Quote, ":", "2", "}">>
ReplyTokens ==
    { <<"[">>, <<"]">>, <<"{">>, <<"}">>, <<Quote>>, <<Backslash>>, <<",">>,
      <<"1">>, <<"x">>, <<" ">>, <<SAcute>>, Fence, FenceJSON, ObjectA, ObjectB }

RECURSIVE Concat(_)
Concat(ss) == IF ss = <<>> THEN <<>> ELSE Head(ss) \o Concat(Tail(ss))

ParseInit ==
    /\ \E ts \in SeqsUpTo(ReplyTokens, MaxTokens) : content = Concat(ts)
    /\ scan = <<>>
    /\ arr = <<>>
    /\ fallback = <<>>
    /\ jsonContent = <<>>
    /\ perr = "none"
    /\ pphase = "input"

\* the tokens of the reply texts with fenced blocks
FenceTokens == { <<"[">>, <<"]">>, <<Quote>>, <<SAcute>>, Fence, FenceJSON }

FenceInit ==
    /\ \E ts \in SeqsUpTo(FenceTokens, MaxFenceTokens) : content = Concat(ts)
    /\ scan = <<>>
    /\ arr = <<>>
    /\ fallback = <<>>
    /\ jsonContent = <<>>
    /\ perr = "none"
    /\ pphase = "input"

ParseIdle ==
    /\ content = <<>>
    /\ scan = <<>>
    /\ arr = <<>>
    /\ fallback = <<>>
    /\ jsonContent = <<>>
    /\ perr = "none"
    /\ pphase = "off"

\* 456-467: parseExtractionResponse recovers the JSON text of a reply: the array of
\* extractJSONFromResponse, or else the array built from the reply's objects, or
\* else the error
ParseReply ==
    /\ pphase = "input"
    /\ scan' = findJSONArray(TrimSpace(content))
    /\ arr' = extractJSONFromResponse(content)
    /\ fallback' = IF arr' = <<>> THEN buildJSONArrayFromObjects(content) ELSE <<>>
    /\ jsonContent' = IF arr' # <<>> THEN arr' ELSE fallback'
    /\ perr' = IF jsonContent' = <<>> THEN "nojson" ELSE "none"
    /\ pphase' = "done"
    /\ UNCHANGED <<content, chunkVars, sumVars, applyVars, runVars, anVars>>

-----------------------------------------------------------------------------
(* The Analyzer: program constants                                         *)

\* batchSize of CategorizeTransactions
batchSize == 30
\* extractFromChunkRecursive bisects a chunk longer than this
MinSplitLen == 6000
\* ... and returns an error without a call below this depth
MaxDepth == 3
\* callClaudeAPI: attempts per send
MaxAttempts == 3
\* ... and the base of the backoff, in seconds: attempt*2
BackoffBase == 2

-----------------------------------------------------------------------------
(* The completion service and its replies                                  *)

\* What one HTTP attempt can meet (626-664):
\*   timeout   httpClient.Do fails with a net.Error whose Timeout() is true
\*   connfail  httpClient.Do fails otherwise (connection refused, reset, DNS)
\*   readfail  the response body cannot be read
\*   s200      status 200, the body decodes as the envelope
\*   s200bad   status 200, the body does not decode
\*   s429, s500  status 429, a status >= 500
\*   s400      any other status (neither 200 nor 429 nor >= 500)
Outcomes == {"timeout", "connfail", "readfail", "s200", "s200bad", "s429", "s500", "s400"}

\* The text of a reply's first content block, by the shape the parsers see:
\*   array    a top-level JSON array of the records `recs`
\*   objects  no array, the records as a bare sequence of objects
\*   badjson  a bracket-balanced span that json.Unmarshal rejects
\*   prose    no JSON at all
\*   nocontent  the envelope has no content block
Reply(form, recs) == [form |-> form, recs |-> recs]
MockReply == Reply("array", <<>>)

ValidDates == {"2025-01-15"}
\* time.Parse("2006-01-02", d) succeeds
DateParsesAlways(d) == TRUE
DateParses(d) == d \in ValidDates

\* a record of an extraction reply; its description names the span it was read from
ERec(span, n, date, amount, type) ==
    [date |-> date, description |-> <<span, n>>, amount |-> amount, type |-> type]

ExtractReplies(span) ==
    { Reply("prose", <<>>),
      Reply("nocontent", <<>>),
      Reply("badjson", <<>>),
      Reply("array", <<>>),
      Reply("array", <<ERec(span, 1, "2025-01-15", -50, "debit")>>),
      Reply("array", <<ERec(span, 1, "15/01/2025", -50, "debit"),
                       ERec(span, 2, "2025-01-15", 200, "credit")>>),
      Reply("objects", <<ERec(span, 1, "2025-01-15", 200, "Credit")>>) }

\* a CategorizationResult
CRec(index, category, subcategory, confidence) ==
    [index |-> index, category |-> category, subcategory |-> subcategory,
     confidence |-> confidence]

\* the replies to a batch of m transactions (confidence in hundredths)
CategorizeReplies(m) ==
    { Reply("prose", <<>>),
      Reply("objects", <<CRec(0, "Food", "Groceries", 95)>>),
      Reply("array", <<>>),
      Reply("array", <<CRec(0, "Food", "Groceries", 95)>>),
      Reply("array", <<CRec(m, "Travel", "Hotels", 80), CRec(m - 1, "Food", "Coffee", 90),
                       CRec(-1, "Travel", "Flights", 70)>>),
      Reply("array", <<CRec(0, "", "", 50)>>) }

-----------------------------------------------------------------------------
(* callClaudeAPI, analyzer.go 584-671                                      *)

NoSend == [st |-> "none", attempt |-> 0, err |-> "none", reply |-> MockReply]

\* 591: the budget check
BudgetExceededLate(maxReq, made) == maxReq > 0 /\ made > maxReq
BudgetExceededEarly(maxReq, made) == maxReq > 0 /\ made + 1 >= maxReq

BudgetExceeded(maxReq, made) == maxReq > 0 /\ made >= maxReq

\* 629, 656: the outcomes after which the loop continues, on an attempt before the last
RetryableAll(o) == o \in {"timeout", "connfail", "s429", "s500"}
RetryableAnyStatus(o) == o \in {"timeout", "s429", "s500", "s400", "s200bad"}

Retryable(o) == o \in {"timeout", "s429", "s500"}

\* 629, 656: attempt < 3
MayRetryAlways(attempt) == TRUE

MayRetryOnLast(attempt) == attempt <= MaxAttempts

MayRetry(attempt) == attempt < MaxAttempts

\* 630, 657: the backoff before the next attempt
BackoffFlat(attempt) == BackoffBase

Backoff(attempt) == attempt * BackoffBase

\* the error a final outcome gives
ErrorOf(o) ==
    CASE o \in {"timeout", "connfail"} -> "transport"
      [] o = "readfail" -> "read"
      [] o = "s200bad" -> "decode"
      [] OTHER -> "status"

\* 599: if a.dryRun: the mock is returned in place of the HTTP loop
MockedNever(dry) == FALSE
Mocked(dry) == dry

\* 585-613: the part of callClaudeAPI before the HTTP loop.  The caller's action
\* conjoins it: the send is rejected for budget, or counted and answered by the
\* dry-run mock, or counted and left to the HTTP loop.
BeginSend ==
    /\ trace' = <<>>
    /\ waits' = <<>>
    /\ posts' = posts
    /\ IF BudgetExceeded(maxRequests, requestsMade)
       THEN /\ requestsMade' = requestsMade
            /\ send' = [st |-> "ret", attempt |-> 0, err |-> "limit", reply |-> MockReply]
       ELSE /\ requestsMade' = requestsMade + 1
            /\ send' = IF Mocked(dryRun)
                       THEN [st |-> "ret", attempt |-> 0, err |-> "none", reply |-> MockReply]
                       ELSE [st |-> "http", attempt |-> 1, err |-> "none", reply |-> MockReply]

\* 616-665: one pass of the loop: a POST and what comes of it
AttemptStep(o, reply) ==
    /\ send.st = "http"
    /\ posts' = posts + 1
    /\ trace' = Append(trace, o)
    /\ IF o = "s200"
       THEN /\ send' = [send EXCEPT !.st = "ret", !.err = "none", !.reply = reply]
            /\ waits' = waits
       ELSE IF Retryable(o) /\ MayRetry(send.attempt)
       THEN /\ send' = [send EXCEPT !.attempt = @ + 1]
            /\ waits' = Append(waits, Backoff(send.attempt))
       ELSE /\ send' = [send EXCEPT !.st = "ret", !.err = ErrorOf(o)]
            /\ waits' = waits

-----------------------------------------------------------------------------
(* Extraction: parseExtractionResponse, analyzer.go 450-510                *)

NoErr == "none"

\* 491-495: the type of a record
TypeOfAnyCase(t) == IF t \in {"credit", "Credit"} THEN Credit ELSE Debit

TypeOf(t) == IF t = "credit" THEN Credit ELSE Debit

\* 497-504: the Transaction built from a record
NewTransaction(r, src) ==
    [Date |-> r.date, Description |-> r.description, Amount |-> r.amount,
     Type |-> TypeOf(r.type), Balance |-> 0, Category |-> "", Subcategory |-> "",
     Confidence |-> 0, RawText |-> r.description, Source |-> src]

\* 483-507: the records converted, those whose date does not parse skipped
RECURSIVE ConvertRecords(_, _)
ConvertRecords(recs, src) ==
    IF recs = <<>> THEN <<>>
    ELSE IF DateParses(Head(recs).date)
         THEN <<NewTransaction(Head(recs), src)>> \o ConvertRecords(Tail(recs), src)
         ELSE ConvertRecords(Tail(recs), src)

\* 451-479: a reply parses when it has content and either extractJSONFromResponse
\* finds an array or buildJSONArrayFromObjects synthesizes one, and the array
\* unmarshals into the record type
parseExtractionResponse(reply, src) ==
    IF reply.form \in {"array", "objects"}
    THEN [txs |-> ConvertRecords(reply.recs, src), err |-> NoErr]
    ELSE [txs |-> <<>>, err |-> "parse"]

-----------------------------------------------------------------------------
(* Extraction: extractFromChunkRecursive, analyzer.go 257-308              *)

\* a frame: the chunk is the span [lo, hi) of chunk k of the document.  leftErr
\* records the error of the left half, which the code drops (290)
Frame(k, lo, hi, depth) ==
    [k |-> k, lo |-> lo, hi |-> hi, depth |-> depth, pc |-> "entry", leftTx |-> <<>>,
     leftErr |-> NoErr]

SpanOf(f) == <<f.k, f.lo, f.hi>>
LenOf(f) == f.hi - f.lo

NoRv == [valid |-> FALSE, txs |-> <<>>, err |-> NoErr]
Rv(txs, err) == [valid |-> TRUE, txs |-> txs, err |-> err]

NoRet == [op |-> "none", txs |-> <<>>, err |-> NoErr]

Top == stack[Len(stack)]
Pop == SubSeq(stack, 1, Len(stack) - 1)
SetTop(f) == [stack EXCEPT ![Len(stack)] = f]

\* 259: the depth guard
TooDeepLate(depth) == depth > MaxDepth + 1
TooDeep(depth) == depth > MaxDepth

\* 285: the chunk is large enough to bisect
Bisectable(len) == len > MinSplitLen

\* 257-277: the frame is entered: the depth guard, then the send is begun.  The
\* model follows a run up to `limit` sends.
FrameEnterWithin(limit) ==
    /\ op = "extract" /\ stack # <<>> /\ Top.pc = "entry"
    /\ IF TooDeep(Top.depth)
       THEN /\ stack' = Pop
            /\ rv' = Rv(<<>>, "depth")
            /\ UNCHANGED <<requestsMade, sendVars>>
       ELSE /\ requestsMade < limit
            /\ BeginSend
            /\ stack' = SetTop([Top EXCEPT !.pc = "call"])
            /\ rv' = rv
    /\ UNCHANGED <<cfgVars, op, source, chunks, ci, allTransactions, catVars, ret,
                   funVars, histVars>>

FrameEnter == FrameEnterWithin(MaxSends)

\* 616-665, called from 274: one HTTP attempt of the frame's send, the service
\* answering with one of the outcomes `outs` and, on a 200, one of `replies`
FrameHttpWith(outs, replies) ==
    /\ op = "extract" /\ stack # <<>> /\ Top.pc = "call"
    /\ \E o \in outs :
          IF o = "s200"
          THEN \E r \in replies : AttemptStep(o, r)
          ELSE AttemptStep(o, MockReply)
    /\ UNCHANGED <<cfgVars, requestsMade, op, extVars, catVars, ret, funVars, histVars>>

FrameHttp == stack # <<>> /\ FrameHttpWith(Outcomes, ExtractReplies(SpanOf(Top)))

\* 275: err != nil
SendFailedNever(err) == FALSE
SendFailed(err) == err # NoErr

\* 274-296: the send has returned: its error ends the frame; a reply that parses
\* ends it with the transactions; one that does not makes it bisect a large chunk
FrameReceive ==
    /\ op = "extract" /\ stack # <<>> /\ Top.pc = "call" /\ send.st = "ret"
    /\ LET p == parseExtractionResponse(send.reply, source)
           mid == LenOf(Top) \div 2
       IN IF SendFailed(send.err)
          THEN /\ stack' = Pop
               /\ rv' = Rv(<<>>, send.err)
          ELSE IF p.err = NoErr
          THEN /\ stack' = Pop
               /\ rv' = Rv(p.txs, NoErr)
          ELSE IF Bisectable(LenOf(Top))
          THEN /\ stack' = Append(SetTop([Top EXCEPT !.pc = "left"]),
                                  Frame(Top.k, Top.lo, Top.lo + mid, Top.depth + 1))
               /\ rv' = NoRv
          ELSE /\ stack' = Pop
               /\ rv' = Rv(<<>>, "parse")
    /\ send' = NoSend /\ trace' = <<>> /\ waits' = <<>>
    /\ UNCHANGED <<cfgVars, requestsMade, op, source, chunks, ci, allTransactions,
                   catVars, ret, posts, funVars>>

FrameRecv == FrameReceive /\ UNCHANGED histVars

\* 290-291: the left half has returned (its error dropped); the right half is entered
FrameAfterLeft ==
    /\ op = "extract" /\ stack # <<>> /\ Top.pc = "left" /\ rv.valid
    /\ LET mid == LenOf(Top) \div 2
       IN stack' = Append(SetTop([Top EXCEPT !.pc = "right", !.leftTx = rv.txs,
                                             !.leftErr = rv.err]),
                          Frame(Top.k, Top.lo + mid, Top.hi, Top.depth + 1))
    /\ rv' = NoRv
    /\ UNCHANGED <<cfgVars, requestsMade, op, source, chunks, ci, allTransactions,
                   catVars, ret, sendVars, funVars, histVars>>

\* 292: append(leftTx, rightTx...)
CombineRightFirst(leftTx, rightTx) == rightTx \o leftTx
Combine(leftTx, rightTx) == leftTx \o rightTx

\* 291-307: the right half has returned: the halves combined, an error when empty
FrameAfterRight ==
    /\ op = "extract" /\ stack # <<>> /\ Top.pc = "right" /\ rv.valid
    /\ LET combined == Combine(Top.leftTx, rv.txs)
       IN rv' = IF Len(combined) > 0 THEN Rv(combined, NoErr) ELSE Rv(<<>>, "parse")
    /\ stack' = Pop
    /\ UNCHANGED <<cfgVars, requestsMade, op, source, chunks, ci, allTransactions,
                   catVars, ret, sendVars, funVars, histVars>>

-----------------------------------------------------------------------------
(* Extraction: ExtractTransactionsFromText, analyzer.go 169-206            *)

\* 180-182
CutChunks(cs, only) == IF only /\ Len(cs) > 1 THEN SubSeq(cs, 1, 1) ELSE cs

\* 169-193: the call is made with a document whose text splits into chunks of the
\* lengths `doc` (none when the text is longer than the chunk size and holds
\* nothing but newlines); the first chunk's frame is entered.  The locals of the
\* call that returned before are gone.
ExtractBegin(doc, src) ==
    /\ op = "idle"
    /\ source' = src
    /\ chunks' = CutChunks(doc, onlyFirstChunk)
    /\ allTransactions' = <<>>
    /\ rv' = NoRv
    /\ IF Len(doc) = 0
       THEN /\ op' = "idle"
            /\ ci' = 0
            /\ stack' = <<>>
            /\ ret' = [op |-> "extract", txs |-> <<>>, err |-> NoErr]
       ELSE /\ op' = "extract"
            /\ ci' = 1
            /\ stack' = <<Frame(1, 0, doc[1], 0)>>
            /\ ret' = NoRet
    /\ transactions' = <<>> /\ bi' = 0 /\ cpc' = "call"
    /\ UNCHANGED <<cfgVars, requestsMade, sendVars, funVars>>

ExtractStart(doc, src) == ExtractBegin(doc, src) /\ UNCHANGED histVars

\* 193-205: a chunk's outermost frame has returned
ChunkDone ==
    /\ op = "extract" /\ stack = <<>> /\ rv.valid
    /\ rv' = NoRv
    /\ IF rv.err # NoErr
       THEN /\ op' = "idle"
            /\ ret' = [op |-> "extract", txs |-> <<>>, err |-> rv.err]
            /\ UNCHANGED <<ci, allTransactions, stack>>
       ELSE /\ allTransactions' = allTransactions \o rv.txs
            /\ IF ci < Len(chunks)
               THEN /\ ci' = ci + 1
                    /\ stack' = <<Frame(ci + 1, 0, chunks[ci + 1], 0)>>
                    /\ UNCHANGED <<op, ret>>
               ELSE /\ op' = "idle"
                    /\ ret' = [op |-> "extract", txs |-> allTransactions', err |-> NoErr]
                    /\ UNCHANGED <<ci, stack>>
    /\ UNCHANGED <<cfgVars, requestsMade, source, chunks, catVars, sendVars,
                   funVars, histVars>>

-----------------------------------------------------------------------------
(* Categorization: parseCategorizationResponse, analyzer.go 723-756        *)

\* 747: the index addresses a transaction of the batch
InBatchFromOne(index, m) == index >= 1 /\ index < m

InBatch(index, m) == index >= 0 /\ index < m

\* 746-753: the results applied in order to the batch
ApplyResultsAndSource(batch, results) ==
    [j \in 1..Len(batch) |-> [batch[j] EXCEPT !.Source = "llm"]]

RECURSIVE ApplyResults(_, _)
ApplyResults(batch, results) ==
    IF results = <<>> THEN batch
    ELSE LET r == Head(results)
             b1 == IF InBatch(r.index, Len(batch))
                   THEN [batch EXCEPT ![r.index + 1] =
                            [@ EXCEPT !.Category = r.category,
                                      !.Subcategory = r.subcategory,
                                      !.Confidence = r.confidence]]
                   ELSE batch
         IN ApplyResults(b1, Tail(results))

\* 724-743: a reply parses when it has content, extractJSONFromResponse finds an
\* array (there is no fallback to bare objects here) and the array unmarshals
parseCategorizationResponse(reply, batch) ==
    IF reply.form = "array"
    THEN [batch |-> ApplyResults(batch, reply.recs), err |-> NoErr]
    ELSE [batch |-> batch, err |-> "parse"]

\* the uncategorized transactions a caller hands over
InputTx(j) ==
    [Date |-> "2025-01-15", Description |-> <<"in", j>>, Amount |-> -50,
     Type |-> Debit, Balance |-> 0, Category |-> "", Subcategory |-> "",
     Confidence |-> 0, RawText |-> <<"in", j>>, Source |-> "a.pdf"]

InputTxs(n) == [j \in 1..n |-> InputTx(j)]

\* the results of the bounded result lists: their indices, in or out of the batch,
\* and two different results for index 0
ResultIndices == {-1, 0, 2, 4, 7}
ResultSet ==
    {CRec(i, "Food", "Groceries", 95) : i \in ResultIndices}
        \cup {CRec(0, "Travel", "Hotels", 80)}

ApplyInit ==
    /\ \E n \in 1..MaxBatch : abatch = InputTxs(n)
    /\ aresults \in SeqsUpTo(ResultSet, MaxResults)
    /\ aout = [batch |-> <<>>, err |-> NoErr]
    /\ aphase = "input"

ApplyIdle ==
    /\ abatch = <<>>
    /\ aresults = <<>>
    /\ aout = [batch |-> <<>>, err |-> NoErr]
    /\ aphase = "off"

\* 723-756: parseCategorizationResponse on a reply whose array holds the results
ApplyReply ==
    /\ aphase = "input"
    /\ aout' = parseCategorizationResponse(Reply("array", aresults), abatch)
    /\ aphase' = "done"
    /\ UNCHANGED <<abatch, aresults, chunkVars, sumVars, parseVars, runVars, anVars>>

-----------------------------------------------------------------------------
(* Categorization: CategorizeTransactions and categorizeBatch, 137-166, 513-538 *)

\* 148-151
BatchEnd(i, n) == IF i + batchSize > n THEN n ELSE i + batchSize

\* the batch transactions[i:end]
BatchOf(txs, i) == SubSeq(txs, i + 1, BatchEnd(i, Len(txs)))

\* the list with its batch at i replaced
WithBatchAtStart(txs, i, batch) ==
    [j \in 1..Len(txs) |-> IF j <= Len(batch) THEN batch[j] ELSE txs[j]]

WithBatch(txs, i, batch) ==
    [j \in 1..Len(txs) |->
        IF j > i /\ j <= BatchEnd(i, Len(txs)) THEN batch[j - i] ELSE txs[j]]

\* 137-147: the call is made; an empty list returns at once
CategorizeStart(list) ==
    /\ op = "idle"
    /\ transactions' = list
    /\ bi' = 0
    /\ cpc' = "call"
    /\ IF Len(list) = 0
       THEN /\ op' = "idle"
            /\ ret' = [op |-> "categorize", txs |-> <<>>, err |-> NoErr]
       ELSE /\ op' = "categorize"
            /\ ret' = NoRet
    /\ source' = "" /\ chunks' = <<>> /\ ci' = 0 /\ allTransactions' = <<>>
    /\ stack' = <<>> /\ rv' = NoRv
    /\ UNCHANGED <<cfgVars, requestsMade, sendVars, funVars, histVars>>

\* 513-531: categorizeBatch begins the send for the batch at bi
CatCall ==
    /\ op = "categorize" /\ cpc = "call"
    /\ requestsMade < MaxSends
    /\ BeginSend
    /\ cpc' = "http"
    /\ UNCHANGED <<cfgVars, op, extVars, transactions, bi, ret, funVars, histVars>>

\* 616-665, called from 531: one HTTP attempt of the batch's send
CatHttp ==
    /\ op = "categorize" /\ cpc = "http"
    /\ \E o \in Outcomes :
          IF o = "s200"
          THEN \E r \in CategorizeReplies(Len(BatchOf(transactions, bi))) : AttemptStep(o, r)
          ELSE AttemptStep(o, MockReply)
    /\ UNCHANGED <<cfgVars, requestsMade, op, extVars, catVars, ret, funVars, histVars>>

\* 154-165, 531-537: the send has returned: an error of the send or of the parse is
\* returned to the caller; otherwise the results are applied and the loop goes on
CatRecv ==
    /\ op = "categorize" /\ cpc = "http" /\ send.st = "ret"
    /\ LET p == parseCategorizationResponse(send.reply, BatchOf(transactions, bi))
           end == BatchEnd(bi, Len(transactions))
       IN IF send.err # NoErr
          THEN /\ op' = "idle"
               /\ ret' = [op |-> "categorize", txs |-> <<>>, err |-> send.err]
               /\ UNCHANGED <<transactions, bi, cpc>>
          ELSE IF p.err # NoErr
          THEN /\ op' = "idle"
               /\ ret' = [op |-> "categorize", txs |-> <<>>, err |-> p.err]
               /\ UNCHANGED <<transactions, bi, cpc>>
          ELSE /\ transactions' = WithBatch(transactions, bi, p.batch)
               /\ IF end < Len(transactions)
                  THEN /\ bi' = bi + batchSize
                       /\ cpc' = "call"
                       /\ UNCHANGED <<op, ret>>
                  ELSE /\ op' = "idle"
                       /\ ret' = [op |-> "categorize", txs |-> <<>>, err |-> NoErr]
                       /\ UNCHANGED <<bi, cpc>>
    /\ send' = NoSend /\ trace' = <<>> /\ waits' = <<>>
    /\ UNCHANGED <<cfgVars, requestsMade, extVars, posts, funVars, histVars>>

-----------------------------------------------------------------------------
(* The Analyzer's configuration, analyzer.go 65-125                        *)

\* 112
EnableDryRun(d) ==
    /\ op = "idle"
    /\ dryRun' = d
    /\ UNCHANGED <<onlyFirstChunk, maxRequests, requestsMade, op, extVars, catVars, ret,
                   sendVars, funVars, histVars>>

\* 118
SetOnlyFirstChunk(b) ==
    /\ op = "idle"
    /\ onlyFirstChunk' = b
    /\ UNCHANGED <<dryRun, maxRequests, requestsMade, op, extVars, catVars, ret,
                   sendVars, funVars, histVars>>

\* 121-125: a negative n is ignored.  The cap is set before the first send.
SetMaxRequests(n) ==
    /\ op = "idle"
    /\ requestsMade = 0
    /\ maxRequests' = IF n >= 0 THEN n ELSE maxRequests
    /\ UNCHANGED <<dryRun, onlyFirstChunk, requestsMade, op, extVars, catVars, ret,
                   sendVars, funVars, histVars>>

\* 98-108: the Analyzer NewAnalyzer returns, no call made yet
AnInit ==
    /\ dryRun = FALSE
    /\ onlyFirstChunk = FALSE
    /\ maxRequests = 0
    /\ requestsMade = 0
    /\ op = "idle"
    /\ source = ""
    /\ chunks = <<>>
    /\ ci = 0
    /\ allTransactions = <<>>
    /\ stack = <<>>
    /\ rv = NoRv
    /\ transactions = <<>>
    /\ bi = 0
    /\ cpc = "call"
    /\ ret = NoRet
    /\ send = NoSend
    /\ trace = <<>>
    /\ waits = <<>>
    /\ posts = 0
    /\ callNo = 0
    /\ firstDoc = <<>>
    /\ firstRet = NoRet
    /\ received = <<>>

\* the inputs of the callers
ChunkLens == {6000, 12001}
Documents == SeqsUpTo(ChunkLens, MaxChunks)
Sources == {"a.pdf"}
ListSizes == {0, 1, batchSize + 1, 2 * batchSize + 1}

Next ==
    \/ \E d \in BOOLEAN : EnableDryRun(d)
    \/ \E b \in BOOLEAN : SetOnlyFirstChunk(b)
    \/ \E n \in -1..MaxCap : SetMaxRequests(n)
    \/ \E doc \in Documents, src \in Sources :
          ExtractStart(doc, src)
    \/ FrameEnter
    \/ FrameHttp
    \/ FrameRecv
    \/ FrameAfterLeft
    \/ FrameAfterRight
    \/ ChunkDone
    \/ \E n \in ListSizes : CategorizeStart(InputTxs(n))
    \/ CatCall
    \/ CatHttp
    \/ CatRecv

\* ---- Recursive repair on its own: one call with a document of one chunk, made
\* on a new Analyzer; the service answers every send with a status 200 or 400 and,
\* on a 200, with prose, an empty array or an array of one record.
RepairLens == {5000, 20000, 96000}
RepairOutcomes == {"s200", "s400"}
RepairReplies(span) ==
    { Reply("prose", <<>>),
      Reply("array", <<>>),
      Reply("array", <<ERec(span, 1, "2025-01-15", -50, "debit")>>) }

RepairStart ==
    /\ requestsMade = 0
    /\ \E len \in RepairLens : ExtractStart(<<len>>, "a.pdf")

RepairEnter == FrameEnterWithin(MaxRepairSends)

RepairHttp == stack # <<>> /\ FrameHttpWith(RepairOutcomes, RepairReplies(SpanOf(Top)))

NextRepair ==
    \/ RepairStart
    \/ RepairEnter
    \/ RepairHttp
    \/ FrameRecv
    \/ FrameAfterLeft
    \/ FrameAfterRight
    \/ ChunkDone

\* ---- One call of either public method on a new Analyzer, run to its return:
\* the running call is never suspended for ever, and the service answers every
\* attempt of a send or lets it time out.
LiveDocs == { <<48000>>, <<5000, 20000>> }
LiveOutcomes == {"s200", "timeout"}
LiveReplies(span) ==
    { Reply("prose", <<>>),
      Reply("array", <<ERec(span, 1, "2025-01-15", -50, "debit")>>) }

LiveExtract ==
    /\ requestsMade = 0 /\ ret = NoRet
    /\ \E doc \in LiveDocs : ExtractStart(doc, "a.pdf")

LiveCategorize ==
    /\ requestsMade = 0 /\ ret = NoRet
    /\ \E n \in ListSizes : CategorizeStart(InputTxs(n))

LiveHttp == stack # <<>> /\ FrameHttpWith(LiveOutcomes, LiveReplies(SpanOf(Top)))

\* the steps of the running call
LiveRun ==
    \/ RepairEnter
    \/ LiveHttp
    \/ FrameRecv
    \/ FrameAfterLeft
    \/ FrameAfterRight
    \/ ChunkDone
    \/ CatCall
    \/ CatHttp
    \/ CatRecv

NextLive ==
    \/ LiveExtract
    \/ LiveCategorize
    \/ LiveRun

\* ---- One call of ExtractTransactionsFromText on a new Analyzer with a document
\* of chunks too short to bisect; the replies of its sends are recorded.
ConcatDocs == SeqsUpTo({MinSplitLen}, MaxConcatChunks)
ConcatSources == {"a.pdf", "b.pdf"}
ConcatOutcomes == {"s200", "s400"}
\* the records of the replies do not name their chunk: two chunks can return the
\* same record
ConcatReplies ==
    { Reply("prose", <<>>),
      Reply("array", <<>>),
      Reply("array", <<ERec(0, 1, "2025-01-15", -50, "debit"),
                       ERec(0, 1, "2025-01-15", -50, "debit")>>),
      Reply("array", <<ERec(0, 2, "15/01/2025", -50, "debit"),
                       ERec(0, 3, "2025-01-15", 200, "credit")>>),
      Reply("objects", <<ERec(0, 4, "2025-01-15", 200, "Credit")>>) }

ConcatStart ==
    /\ requestsMade = 0 /\ ret = NoRet
    /\ \E doc \in ConcatDocs, src \in ConcatSources : ExtractStart(doc, src)

ConcatEnter == FrameEnterWithin(MaxConcatChunks)

ConcatHttp == stack # <<>> /\ FrameHttpWith(ConcatOutcomes, ConcatReplies)

ConcatRecv ==
    /\ FrameReceive
    /\ received' = Append(received, send.reply)
    /\ UNCHANGED <<callNo, firstDoc, firstRet>>

NextConcat ==
    \/ ConcatStart
    \/ ConcatEnter
    \/ ConcatHttp
    \/ ConcatRecv
    \/ ChunkDone

\* ---- Two calls of ExtractTransactionsFromText with the same text and source on
\* one Analyzer in dry-run mode, configured before the first call.
IdemDryRun == callNo = 0 /\ ~dryRun /\ EnableDryRun(TRUE)

IdemOnlyFirst == callNo = 0 /\ ~onlyFirstChunk /\ SetOnlyFirstChunk(TRUE)

IdemCap(n) == callNo = 0 /\ maxRequests = 0 /\ SetMaxRequests(n)

ExtractFirst(doc) ==
    /\ callNo = 0 /\ dryRun
    /\ ExtractBegin(doc, "a.pdf")
    /\ callNo' = 1
    /\ firstDoc' = doc
    /\ firstRet' = firstRet
    /\ received' = received

ExtractAgain ==
    /\ callNo = 1 /\ ret.op = "extract"
    /\ ExtractBegin(firstDoc, source)
    /\ callNo' = 2
    /\ firstDoc' = firstDoc
    /\ firstRet' = ret
    /\ received' = received

\* two calls make at most one send per chunk each
IdemEnter == FrameEnterWithin(2 * MaxChunks)

NextIdem ==
    \/ IdemDryRun
    \/ IdemOnlyFirst
    \/ \E n \in 1..MaxCap : IdemCap(n)
    \/ \E doc \in Documents : ExtractFirst(doc)
    \/ ExtractAgain
    \/ IdemEnter
    \/ FrameRecv
    \/ ChunkDone

-----------------------------------------------------------------------------
(* main, cmd/manager/main.go 25-130: one run of the program.  The calls it   *)
(* makes are taken by their results.                                        *)

RunInit ==
    /\ mpc = "load" /\ nPDFs = 0 /\ di = 0 /\ collected = <<>> /\ skipped = {}
    /\ catWarned = FALSE /\ reported = <<>> /\ exit = "none" /\ cause = "none"

\* no run
RunIdle ==
    /\ mpc = "off" /\ nPDFs = 0 /\ di = 0 /\ collected = <<>> /\ skipped = {}
    /\ catWarned = FALSE /\ reported = <<>> /\ exit = "none" /\ cause = "none"

\* log.Fatalf
Fatal(c) == mpc' = "exit" /\ exit' = "fatal" /\ cause' = c

\* 34-38: pdfLoader.Load() finds n PDF files; it fails when the folder is missing
\* (found = FALSE) or holds no PDF file (loader, main.go 153-172)
RunLoad(found, n) ==
    /\ mpc = "load"
    /\ IF ~found \/ n = 0
       THEN /\ Fatal("load")
            /\ nPDFs' = 0
       ELSE /\ mpc' = "init"
            /\ nPDFs' = n
            /\ UNCHANGED <<exit, cause>>
    /\ UNCHANGED <<di, collected, skipped, catWarned, reported>>
    /\ UNCHANGED <<chunkVars, sumVars, parseVars, applyVars, anVars>>

\* 46-49: NewAnalyzer fails without the .env file or the API key (analyzer.go 67-74)
RunNewAnalyzer(ok) ==
    /\ mpc = "init"
    /\ IF ok
       THEN mpc' = "docs" /\ UNCHANGED <<exit, cause>>
       ELSE Fatal("config")
    /\ UNCHANGED <<nPDFs, di, collected, skipped, catWarned, reported>>
    /\ UNCHANGED <<chunkVars, sumVars, parseVars, applyVars, anVars>>

\* what the loop body can meet for one document: ExtractToFile fails (72), the
\* text file cannot be read (78), ExtractTransactionsFromText fails (85), or it
\* returns its transactions
DocResults == {"pdffail", "readfail", "llmfail", "ok"}

\* the transactions 1..n of document d
DocTxs(d, n) == [j \in 1..n |-> <<d, j>>]

\* 55-93: one pass of the loop, ExtractTransactionsFromText returning n
\* transactions when it succeeds
RunDocument(res, n) ==
    /\ mpc = "docs" /\ di < nPDFs
    /\ di' = di + 1
    /\ IF res # "ok"
       THEN /\ skipped' = skipped \cup {di + 1}
            /\ collected' = collected
       ELSE /\ skipped' = skipped
            /\ collected' = collected \o DocTxs(di + 1, n)
    /\ UNCHANGED <<mpc, nPDFs, catWarned, reported, exit, cause>>
    /\ UNCHANGED <<chunkVars, sumVars, parseVars, applyVars, anVars>>

\* 96-101: the loop is over; with no transaction at all main returns
RunCount ==
    /\ mpc = "docs" /\ di = nPDFs
    /\ IF Len(collected) = 0
       THEN mpc' = "exit" /\ exit' = "notx"
       ELSE mpc' = "categorize" /\ exit' = exit
    /\ UNCHANGED <<nPDFs, di, collected, skipped, catWarned, reported, cause>>
    /\ UNCHANGED <<chunkVars, sumVars, parseVars, applyVars, anVars>>

\* 105-110: a failure of CategorizeTransactions is a warning
RunCategorize(ok) ==
    /\ mpc = "categorize"
    /\ mpc' = "report"
    /\ catWarned' = ~ok
    /\ UNCHANGED <<nPDFs, di, collected, skipped, reported, exit, cause>>
    /\ UNCHANGED <<chunkVars, sumVars, parseVars, applyVars, anVars>>

\* 119-130: GenerateReports on the collected transactions
RunReport(ok) ==
    /\ mpc = "report"
    /\ IF ok
       THEN /\ mpc' = "exit" /\ exit' = "done" /\ cause' = cause
            /\ reported' = collected
       ELSE /\ Fatal("report")
            /\ reported' = reported
    /\ UNCHANGED <<nPDFs, di, collected, skipped, catWarned>>
    /\ UNCHANGED <<chunkVars, sumVars, parseVars, applyVars, anVars>>

NextRun ==
    \/ \E found \in BOOLEAN, n \in 0..MaxPDFs : RunLoad(found, n)
    \/ \E ok \in BOOLEAN : RunNewAnalyzer(ok)
    \/ \E res \in DocResults, n \in 0..MaxDocTxs : RunDocument(res, n)
    \/ RunCount
    \/ \E ok \in BOOLEAN : RunCategorize(ok)
    \/ \E ok \in BOOLEAN : RunReport(ok)

-----------------------------------------------------------------------------
(* Specifications                                                          *)

\* the chunker alone, over the bounded texts and sizes
InitChunk == ChunkInit /\ SumIdle /\ ParseIdle /\ ApplyIdle /\ RunIdle /\ AnInit

SpecChunk == InitChunk /\ [][SplitText]_vars

\* calculateSummary alone, over the bounded transaction lists
InitSummary == SumInit /\ ChunkIdle /\ ParseIdle /\ ApplyIdle /\ RunIdle /\ AnInit

\* the response parser alone, over the bounded reply texts
InitParse == ParseInit /\ ChunkIdle /\ SumIdle /\ ApplyIdle /\ RunIdle /\ AnInit

SpecParse == InitParse /\ [][ParseReply]_vars

\* the reply parsers over the texts with fenced blocks
InitFence == FenceInit /\ ChunkIdle /\ SumIdle /\ ApplyIdle /\ RunIdle /\ AnInit

SpecFence == InitFence /\ [][ParseReply]_vars

\* parseCategorizationResponse alone, over the bounded batches and result lists
InitApply == ApplyInit /\ ChunkIdle /\ SumIdle /\ ParseIdle /\ RunIdle /\ AnInit

SpecApply == InitApply /\ [][ApplyReply]_vars

SpecSummary == InitSummary /\ [][CalculateSummary]_vars

Init == AnInit /\ ChunkIdle /\ SumIdle /\ ParseIdle /\ ApplyIdle /\ RunIdle

Spec == Init /\ [][Next]_vars

\* recursive repair of one chunk
SpecRepair == Init /\ [][NextRepair]_vars
SpecLive == Init /\ [][NextLive]_vars /\ WF_vars(LiveRun)

\* ---- The types of the records of one reply, from the reply to the totals of
\* the summary: the reply is parsed by parseExtractionResponse and the
\* transactions are handed to calculateSummary.
\* the type strings of a record: "" is also what a missing field unmarshals to
TypeStrings == {"credit", "debit", "", "Credit"}
TypedRecs ==
    { ERec(<<1, 0, MinSplitLen>>, 1, d, a, t) :
        d \in {"2025-01-15", "15/01/2025"}, a \in {-50, 200}, t \in TypeStrings }

\* 485: the date time.Parse returns, as a day number
DayOf(d) == IF d = "2025-01-15" THEN 1 ELSE 0

\* the service's reply: an array of records
TypedReply ==
    /\ sphase = "off" /\ received = <<>>
    /\ \E recs \in SeqsUpTo(TypedRecs, MaxTypedRecs) :
          received' = <<Reply("array", recs)>>
    /\ sphase' = "reply"
    /\ UNCHANGED <<sumTxs, summary, chunkVars, parseVars, applyVars, runVars,
                   cfgVars, requestsMade, op, extVars, catVars, ret, sendVars,
                   callNo, firstDoc, firstRet>>

\* 450-510: the reply parsed into transactions, which the caller hands on
TypedParse ==
    /\ sphase = "reply"
    /\ LET txs == parseExtractionResponse(received[1], "a.pdf").txs
       IN sumTxs' = [j \in 1..Len(txs) |-> [txs[j] EXCEPT !.Date = DayOf(@)]]
    /\ sphase' = "input"
    /\ UNCHANGED <<summary, chunkVars, parseVars, applyVars, runVars, anVars>>

NextTyped ==
    \/ TypedReply
    \/ TypedParse
    \/ CalculateSummary

SpecTyped == Init /\ [][NextTyped]_vars

\* extraction called twice in dry-run mode
SpecIdem == Init /\ [][NextIdem]_vars

\* one extraction, its replies recorded
SpecConcat == Init /\ [][NextConcat]_vars

\* one run of main
InitRun == RunInit /\ ChunkIdle /\ SumIdle /\ ParseIdle /\ ApplyIdle /\ AnInit

SpecRun == InitRun /\ [][NextRun]_vars

-----------------------------------------------------------------------------
(* Properties                                                              *)

Last(s) == s[Len(s)]

ExtractReturned == op = "idle" /\ ret.op = "extract"
CategorizeReturned == op = "idle" /\ ret.op = "categorize"

\* C1 (as claimed): when ExtractTransactionsFromText has returned, every chunk of
\* the document was processed (the loop reached the last chunk) and the caller
\* received the transactions of the chunks that succeeded; a failed chunk neither
\* stops the loop nor discards the accumulated results.
C1_FailedChunkIsolated ==
    ExtractReturned => (ci = Len(chunks) /\ ret.txs = allTransactions)

\* C2 (as claimed): when CategorizeTransactions has returned, its loop reached the
\* last batch: every batch was sent, also the batches after one that failed.
C2_FailedBatchIsolated ==
    CategorizeReturned =>
        BatchEnd(bi, Len(transactions)) = Len(transactions)

\* the sign convention: debits negative, credits positive
SignConvention(txs) ==
    \A j \in 1..Len(txs) :
        IF txs[j].Type = Credit THEN txs[j].Amount > 0 ELSE txs[j].Amount < 0

AmountsOf(txs, type) ==
    [j \in 1..Len(txs) |-> IF txs[j].Type = type THEN txs[j].Amount ELSE 0]

\* C3 (as claimed): for a list that follows the sign convention, calculateSummary
\* reports total expenses as the positive magnitude of the debit amounts, total
\* income as the sum of the credit amounts, and net = income - expenses equal to
\* the signed sum of all amounts.
C3_SummaryTotals ==
    (sphase = "done" /\ SignConvention(sumTxs)) =>
        /\ summary.TotalExpenses = -SumSeq(AmountsOf(sumTxs, Debit))
        /\ summary.TotalIncome = SumSeq(AmountsOf(sumTxs, Credit))
        /\ summary.NetAmount = summary.TotalIncome - summary.TotalExpenses
        /\ summary.NetAmount = SumSeq([j \in 1..Len(sumTxs) |-> sumTxs[j].Amount])

\* a step in which a caller begins a send (callClaudeAPI is called)
SendBegins == send.st = "none" /\ send'.st # "none"

\* C4: with the cap N > 0 set before the first send, a send is admitted exactly
\* when fewer than N sends were admitted before it; an admitted send adds one to
\* requestsMade; a rejected send returns the request-limit error, issues no HTTP
\* request and leaves requestsMade unchanged; so requestsMade <= N in every
\* state.  With the cap at 0 no send is rejected for budget.
C4_CallCap ==
    /\ [](maxRequests > 0 => requestsMade <= maxRequests)
    /\ [](send.err = "limit" => (maxRequests > 0 /\ send.st = "ret" /\ trace = <<>>))
    /\ [][SendBegins =>
            IF maxRequests > 0 /\ requestsMade >= maxRequests
            THEN /\ send'.st = "ret" /\ send'.err = "limit"
                 /\ requestsMade' = requestsMade /\ posts' = posts
            ELSE /\ send'.err # "limit"
                 /\ requestsMade' = requestsMade + 1]_vars

\* C4's case: the cap is 2, two sends were admitted and a third is rejected
C4_Witness ==
    maxRequests = 2 /\ requestsMade = 2 /\ send.st = "ret" /\ send.err = "limit"

\* C5 (as claimed): with the cap n > 0, the number of HTTP POSTs issued never
\* exceeds n.
C5_PostsWithinCap == maxRequests > 0 => posts <= maxRequests

RetryableOutcomes == {"timeout", "s429", "s500"}
Http200 == {"s200", "s200bad"}

\* C6 (as claimed): one send issues at most 3 HTTP attempts, a further attempt
\* only after a timeout or a 429/5xx, and it returns success at the first HTTP
\* 200 reached; three retryable failures in a row give an error after 3 attempts.
C6_SuccessAtFirst200 ==
    /\ Len(trace) <= 3
    /\ \A i \in 1..Len(trace) - 1 : trace[i] \in RetryableOutcomes
    /\ \A i \in 1..Len(trace) :
          trace[i] \in Http200 => (i = Len(trace) /\ send.st = "ret" /\ send.err = NoErr)
    /\ (Len(trace) = 3 /\ trace[3] \in RetryableOutcomes) =>
          (send.st = "ret" /\ send.err # NoErr)

\* C6 (amended): one send issues at most 3 HTTP attempts, a further attempt only
\* after a timeout or a 429/5xx; it returns at the first HTTP 200 reached, with
\* success exactly when the body decodes as the envelope; it returns success in
\* no other case; 500, 500, 200 gives success with exactly 3 attempts and three
\* retryable failures in a row give an error after exactly 3 attempts.
C6_RetryLoop ==
    /\ Len(trace) <= 3
    /\ \A i \in 1..Len(trace) - 1 : trace[i] \in RetryableOutcomes
    /\ \A i \in 1..Len(trace) :
          trace[i] \in Http200 => (i = Len(trace) /\ send.st = "ret")
    /\ (send.st = "ret" /\ trace # <<>>) => (send.err = NoErr <=> Last(trace) = "s200")
    /\ (Len(trace) = 3 /\ trace[3] \in RetryableOutcomes) =>
          (send.st = "ret" /\ send.err # NoErr)

\* C6's case: 500, 500, 200 and the send has returned success
C6_Witness ==
    trace = <<"s500", "s500", "s200">> /\ send.st = "ret" /\ send.err = NoErr

\* attempt i of the current send was followed by a further attempt, or one is due
Retried(i) == Len(trace) > i \/ (send.st = "http" /\ send.attempt = i + 1)

\* attempt i was the last of the current send, which returned the error err
EndedWith(i, err) == Len(trace) = i /\ send.st = "ret" /\ send.err = err

C8_NoRetryOnProtocolError ==
    \A i \in 1..Len(trace) :
        trace[i] \in {"s400", "s200bad"} =>
            /\ i = Len(trace)
            /\ send.st = "ret" /\ send.err # NoErr
            /\ Len(waits) = i - 1

\* C8's case: a retried 429, then a 400 that ends the send after one wait
C8_Witness ==
    trace = <<"s429", "s400">> /\ send.st = "ret" /\ send.err = "status" /\ waits = <<2>>

\* C9 (as claimed): the chunks, a newline reinserted at the boundaries where the
\* line split consumed one, reproduce the text.
C9_NoInformationLoss ==
    cphase = "done" => Rebuild(finalChunks, nlBefore, 1) = text

\* C10: every chunk but possibly the last is at most maxChunkSize long
C10_ChunksBounded ==
    cphase = "done" =>
        \A k \in 1..Len(finalChunks) - 1 : Len(finalChunks[k]) <= chunkSize

\* C10's case: a text without a page line, hard-split into three or more slices
C10_Witness ==
    /\ cphase = "done"
    /\ Len(finalChunks) >= 3
    /\ \A k \in 1..Len(finalChunks) - 1 : Len(finalChunks[k]) = chunkSize
    /\ chunkSize >= 2

\* C11 (as claimed): the Response Parser either returns a text that is a valid
\* JSON array or fails with the no-JSON-found error (and then returns nothing).
C11_ValidArrayOrError ==
    pphase = "done" =>
        /\ perr = "none" => ValidJSONArray(jsonContent)
        /\ perr = "nojson" => jsonContent = <<>>

\* The scanner's contract, stated over the characters themselves.  LexState(s, i):
\* after the first i characters the text is outside a string literal ("out"),
\* inside one ("in"), or inside one right after a backslash ("esc").
RECURSIVE LexState(_, _)
LexState(s, i) ==
    IF i = 0 THEN "out"
    ELSE LET before == LexState(s, i - 1)
         IN CASE before = "out" -> IF s[i] = Quote THEN "in" ELSE "out"
              [] before = "esc" -> "in"
              [] OTHER -> IF s[i] = Backslash THEN "esc"
                          ELSE IF s[i] = Quote THEN "out" ELSE "in"

\* character i is the bracket c, outside any string literal
Structural(s, i, c) == s[i] = c /\ LexState(s, i - 1) = "out"

\* the depth in the brackets o, c after the first i characters; a closing
\* bracket at depth 0 is skipped
RECURSIVE PairDepth(_, _, _, _)
PairDepth(s, i, o, c) ==
    IF i = 0 THEN 0
    ELSE LET d == PairDepth(s, i - 1, o, c)
         IN IF Structural(s, i, o) THEN d + 1
            ELSE IF Structural(s, i, c) /\ d > 0 THEN d - 1
            ELSE d

\* the places where a top-level span closes, and where the span closing at b opens
Closings(s, o, c) ==
    {b \in 1..Len(s) : Structural(s, b, c) /\ PairDepth(s, b - 1, o, c) = 1}

OpeningOf(s, b, o, c) ==
    CHOOSE a \in 1..b :
        /\ Structural(s, a, o) /\ PairDepth(s, a - 1, o, c) = 0
        /\ \A m \in a..(b - 1) : PairDepth(s, m, o, c) > 0

\* the top-level balanced spans in the brackets o, c, in order of appearance
RECURSIVE SpansAt(_, _, _, _)
SpansAt(s, ends, o, c) ==
    IF ends = {} THEN <<>>
    ELSE LET b == CHOOSE x \in ends : \A y \in ends : x <= y
         IN <<SubSeq(s, OpeningOf(s, b, o, c), b)>> \o SpansAt(s, ends \ {b}, o, c)

TopSpans(s, o, c) == SpansAt(s, Closings(s, o, c), o, c)

\* the first top-level bracket-balanced span that begins outside a string literal
FirstArraySpan(s) ==
    IF TopSpans(s, "[", "]") = <<>> THEN <<>> ELSE Head(TopSpans(s, "[", "]"))

\* C12 (as claimed): the array scanner returns the first top-level
\* bracket-balanced [...] span that begins outside any string literal, and nothing
\* when there is none; brackets inside a string literal and escaped quotes do not
\* count.
C12_FirstBalancedSpan ==
    pphase = "done" => scan = FirstArraySpan(TrimSpace(content))

\* the same over the texts without a rune beyond one byte
ScannerSoundOnASCII ==
    (pphase = "done" /\ \A i \in 1..Len(content) : content[i] # SAcute) =>
        scan = FirstArraySpan(TrimSpace(content))

\* C14 (as claimed): when no array is found in a reply, the fallback returns
\* "[" + the reply's top-level balanced {...} spans, wherever they are, in order,
\* joined by "," + "]" if there is such a span and the text deserializes as a
\* list of objects, and it fails otherwise.
C14_ObjectsRecovered ==
    (pphase = "done" /\ arr = <<>>) =>
        LET objects == TopSpans(content, "{", "}")
            array == <<"[">> \o Join(objects, <<",">>) \o <<"]">>
        IN fallback = IF objects # <<>> /\ UnmarshalsToObjects(array)
                      THEN array ELSE <<>>

\* the same over the replies without a code fence
ObjectsRecoveredWithoutFence ==
    Index(content, Fence) = 0 => C14_ObjectsRecovered

\* C13 (as claimed): when categorizeBatch receives a reply that holds no array
\* but a bare sequence of objects, the results are recovered and applied to the
\* batch, and the batch does not fail to parse.
C13_ObjectsReplyApplied ==
    [][(/\ op = "categorize" /\ cpc = "http"
        /\ send.st = "ret" /\ send.err = NoErr /\ send.reply.form = "objects"
        /\ send'.st = "none")
       => /\ transactions' =
                WithBatch(transactions, bi,
                          ApplyResults(BatchOf(transactions, bi), send.reply.recs))
          /\ ret'.err # "parse"]_vars

\* a transaction is fully uncategorized or fully categorized
WellCategorized(tx) == tx.Category = "" => tx.Confidence = 0

\* C16 (as claimed): in every reachable state every transaction of the pipeline
\* is fully uncategorized (empty category, confidence 0) or fully categorized.
C16_NoPartialCategory ==
    /\ \A j \in 1..Len(transactions) : WellCategorized(transactions[j])
    /\ \A j \in 1..Len(allTransactions) : WellCategorized(allTransactions[j])
    /\ \A j \in 1..Len(rv.txs) : WellCategorized(rv.txs[j])
    /\ \A j \in 1..Len(ret.txs) : WellCategorized(ret.txs[j])

\* the results of the list that address transaction j of the batch (0-based j - 1)
ResultsFor(results, j) == {r \in 1..Len(results) : results[r].index = j - 1}

\* the last of them: the one whose fields the transaction ends with
LastResultFor(results, j) ==
    results[CHOOSE r \in ResultsFor(results, j) :
                \A q \in ResultsFor(results, j) : q <= r]

\* C15: parseCategorizationResponse returns no error whatever the indices are;
\* a transaction whose batch-relative index occurs in the result list ends with
\* the category, subcategory and confidence of the (last) result that names it,
\* its other fields unchanged; every other transaction of the batch is unchanged.
C15_IndexMapping ==
    aphase = "done" =>
        /\ aout.err = NoErr
        /\ Len(aout.batch) = Len(abatch)
        /\ \A j \in 1..Len(abatch) :
              IF ResultsFor(aresults, j) = {}
              THEN aout.batch[j] = abatch[j]
              ELSE LET r == LastResultFor(aresults, j)
                   IN aout.batch[j] =
                        [abatch[j] EXCEPT !.Category = r.category,
                                          !.Subcategory = r.subcategory,
                                          !.Confidence = r.confidence]

\* C15's case: indices 0, 2, 4, 7 on a batch of 5: transactions 0, 2 and 4 are
\* categorized, 1 and 3 are as before, and the call returned no error
C15_Witness ==
    /\ aphase = "done"
    /\ Len(abatch) = 5
    /\ [r \in 1..Len(aresults) |-> aresults[r].index] = <<0, 2, 4, 7>>
    /\ \A j \in {1, 3, 5} : aout.batch[j].Category = "Food"
    /\ \A j \in {2, 4} : aout.batch[j] = abatch[j]
    /\ aout.err = NoErr

\* the second of the two calls has returned
SecondReturned == callNo = 2 /\ op = "idle" /\ ret.op = "extract"

LeftHalfReturns == op = "extract" /\ stack # <<>> /\ Top.pc = "left" /\ rv.valid
RightHalfReturns == op = "extract" /\ stack # <<>> /\ Top.pc = "right" /\ rv.valid

\* the transactions name the spans they were read from, each span starting where
\* or after the one before ends
RECURSIVE InSpanOrder(_)
InSpanOrder(txs) ==
    \/ Len(txs) <= 1
    \/ /\ txs[1].Description[1][3] <= txs[2].Description[1][2]
       /\ InSpanOrder(Tail(txs))

\* a half returns no transactions together with an error
HalfResultSound == rv.valid /\ rv.err # NoErr => rv.txs = <<>>

HalvesCombined ==
    /\ LeftHalfReturns =>
          /\ Len(stack') = Len(stack) + 1
          /\ stack'[Len(stack)].leftTx = rv.txs
          /\ Top'.lo = Top.lo + (LenOf(Top) \div 2) /\ Top'.hi = Top.hi
          /\ Top'.depth = Top.depth + 1 /\ Top'.pc = "entry"
    /\ RightHalfReturns =>
          /\ stack' = Pop
          /\ rv'.txs = Top.leftTx \o rv.txs

\* C18: the result of a bisected chunk is the transactions of its left half
\* followed by those of its right half, whatever the error of either half; a half
\* that fails contributes no transactions; the transactions returned are in the
\* order of their spans.
C18_HalvesUnion ==
    /\ [](HalfResultSound /\ (rv.valid => InSpanOrder(rv.txs)) /\ InSpanOrder(ret.txs))
    /\ [][HalvesCombined]_vars

\* the transaction the service returns for the span [lo, hi) of the chunk
LeafTx(lo, hi) == ConvertRecords(<<ERec(<<1, lo, hi>>, 1, "2025-01-15", -50, "debit")>>, "a.pdf")

\* C18's case: a chunk of 20,000 characters returned the transactions of its four
\* sub-splits of 5,000 characters, in order, after 7 sends
C18_Witness ==
    /\ op = "idle" /\ ret.op = "extract" /\ chunks = <<20000>> /\ requestsMade = 7
    /\ ret.err = NoErr
    /\ ret.txs = LeafTx(0, 5000) \o LeafTx(5000, 10000) \o LeafTx(10000, 15000)
                    \o LeafTx(15000, 20000)

\* C18's second case: the left half failed and the right half's transaction is kept
C18_WitnessOneHalf ==
    /\ RightHalfReturns /\ Top.leftErr # NoErr /\ Top.leftTx = <<>>
    /\ rv.err = NoErr /\ rv.txs # <<>>

\* both halves of a bisected chunk parsed, each to an empty transaction list
BothHalvesEmpty ==
    /\ RightHalfReturns
    /\ Top.leftErr = NoErr /\ Top.leftTx = <<>>
    /\ rv.err = NoErr /\ rv.txs = <<>>

\* C19: when the reply for a chunk does not parse and both its halves parse to an
\* empty transaction list, the chunk returns an empty list without an error.
C19_EmptyHalvesNoError ==
    [][BothHalvesEmpty => rv'.valid /\ rv'.txs = <<>> /\ rv'.err = NoErr]_vars

\* what the code does in that case: the chunk returns the parse error (293-307)
C19_EmptyHalvesParseError ==
    [][BothHalvesEmpty => rv'.valid /\ rv'.txs = <<>> /\ rv'.err = "parse"]_vars

C19_Reached == BothHalvesEmpty

\* one send per chunk of the bisection tree down to depth MaxDepth: 15
MaxSendsPerChunk == 2^(MaxDepth + 1) - 1

\* the frames that have made their call: those past the depth guard
Called(f) == f.pc \in {"call", "left", "right"}
\* the frames that have bisected their chunk
Bisected(f) == f.pc \in {"left", "right"}

RepairBounded ==
    /\ \A i \in 1..Len(stack) :
          /\ stack[i].depth = i - 1
          /\ Called(stack[i]) => stack[i].depth <= MaxDepth
          /\ Bisected(stack[i]) => LenOf(stack[i]) > MinSplitLen
    /\ requestsMade <= MaxSendsPerChunk

\* a step that bisects is the step of a frame whose send returned a reply that
\* failed to parse, on a chunk longer than MinSplitLen
BisectsOnlyAfterParseFailure ==
    (stack # <<>> /\ Len(stack') > Len(stack) /\ Top.pc = "call") =>
        /\ send.st = "ret" /\ send.err = NoErr
        /\ parseExtractionResponse(send.reply, source).err # NoErr
        /\ LenOf(Top) > MinSplitLen

\* C20: a chunk is bisected only when its reply failed to parse and it is longer
\* than 6000 characters; no call is made for a sub-chunk more than 3 bisections
\* below the chunk; one chunk causes at most 15 sends.
C20_RepairBounded == []RepairBounded /\ [][BisectsOnlyAfterParseFailure]_vars

\* C20's case: a chunk of 96,000 characters whose replies never parse: 15 sends,
\* the depth guard ending the recursion
C20_Witness ==
    /\ chunks = <<96000>> /\ requestsMade = MaxSendsPerChunk
    /\ op = "idle" /\ ret.op = "extract" /\ ret.err = "parse"

\* a step in which a send is admitted: counted against the budget
SendAdmitted == requestsMade' = requestsMade + 1

DryRunStep ==
    dryRun =>
        /\ posts' = posts
        /\ SendAdmitted =>
              send' = [st |-> "ret", attempt |-> 0, err |-> NoErr, reply |-> Reply("array", <<>>)]
        /\ (op = "extract" /\ op' = "idle") => (ret'.op = "extract" /\ ret'.txs = <<>>)
        /\ op = "categorize" => transactions' = transactions

\* C21: while dry-run mode is on no HTTP request is issued; every admitted send
\* returns the reply whose text is the empty array; extraction returns no
\* transactions and categorization changes no transaction.
C21_DryRunNoHTTP ==
    /\ [](dryRun => send.st # "http")
    /\ [][DryRunStep]_vars

\* C21's case: a two-chunk document extracted in dry-run mode on a new Analyzer:
\* two sends admitted, no POST, an empty result without error
C21_Witness ==
    /\ dryRun /\ op = "idle" /\ ret.op = "extract" /\ Len(chunks) = 2
    /\ requestsMade = 2 /\ posts = 0
    /\ ret.txs = <<>> /\ ret.err = NoErr

\* a failing document is skipped and the loop goes on to the last document
DocumentsIsolated ==
    (mpc \in {"count", "categorize", "report"} \/ exit \in {"notx", "done"} \/ cause = "report")
        => di = nPDFs /\ skipped \subseteq 1..nPDFs

\* a failed categorization is followed by the reports on the collected transactions
ReportsAfterFailedCategorization ==
    (catWarned /\ mpc = "exit") =>
        \/ exit = "done" /\ reported = collected /\ Len(collected) > 0
        \/ exit = "fatal" /\ cause = "report"

\* C22: in a whole run only a configuration or credential failure or a failure of
\* the report generation aborts the process; a failing document is skipped and the
\* later ones are processed; a failed categorization does not prevent the reports.
C22_OnlyConfigOrReportFatal ==
    /\ exit = "fatal" => cause \in {"config", "report"}
    /\ DocumentsIsolated
    /\ ReportsAfterFailedCategorization

\* what holds of main: the failures after start-up are isolated as C22 says
C22_FailuresIsolated == DocumentsIsolated /\ ReportsAfterFailedCategorization

\* the process aborted before it made an Analyzer: the input folder is missing or
\* holds no PDF file
C22_AbortedOnLoad == exit = "fatal" /\ cause = "load"

\* a run whose documents all returned no transaction ended without reports
C22_EndedWithoutReports == exit = "notx" /\ skipped = {} /\ nPDFs > 0

\* the transaction a reply record stands for
TxOfRecord(r, src) ==
    [Date |-> r.date, Description |-> r.description, Amount |-> r.amount,
     Type |-> IF r.type = "credit" THEN "Credit" ELSE "Debit", Balance |-> 0,
     Category |-> "", Subcategory |-> "", Confidence |-> 0, RawText |-> r.description,
     Source |-> src]

\* the records of a reply whose date is of the form YYYY-MM-DD, as transactions
RECURSIVE KeptOf(_, _)
KeptOf(recs, src) ==
    IF recs = <<>> THEN <<>>
    ELSE (IF Head(recs).date = "2025-01-15" THEN <<TxOfRecord(Head(recs), src)>> ELSE <<>>)
            \o KeptOf(Tail(recs), src)

\* the replies' kept records, reply after reply
RECURSIVE ConcatOf(_, _)
ConcatOf(replies, src) ==
    IF replies = <<>> THEN <<>>
    ELSE KeptOf(Head(replies).recs, src) \o ConcatOf(Tail(replies), src)

AllChunksSucceeded == op = "idle" /\ ret.op = "extract" /\ ret.err = NoErr

\* C23: when every chunk succeeds the result is the chunks' reply records in chunk
\* order and reply order, nothing removed but the records whose date does not
\* parse; every transaction carries the document's source, its description as raw
\* text, no category and confidence 0.
C23_Concatenation ==
    AllChunksSucceeded =>
        /\ Len(received) = Len(chunks)
        /\ ret.txs = ConcatOf(received, source)
        /\ \A j \in 1..Len(ret.txs) :
              /\ ret.txs[j].Source = source
              /\ ret.txs[j].RawText = ret.txs[j].Description
              /\ ret.txs[j].Category = "" /\ ret.txs[j].Subcategory = ""
              /\ ret.txs[j].Confidence = 0

\* C23's case: three chunks, the first and the last with the same reply of two
\* equal records, the second with a record of a bad date before a good one: five
\* transactions
C23_Witness ==
    /\ AllChunksSucceeded /\ Len(chunks) = 3 /\ source = "b.pdf"
    /\ received[1] = received[3] /\ Len(received[1].recs) = 2
    /\ Len(received[2].recs) = 2 /\ received[2].recs[1].date = "15/01/2025"
    /\ Len(ret.txs) = 5
    /\ ret.txs[1] = ret.txs[2] /\ ret.txs[1] = ret.txs[5]
    /\ ret.txs[3].Description = <<0, 3>>

\* the places where pat begins in c
StartsOf(c, pat) ==
    {i \in 1..Len(c) : i + Len(pat) - 1 <= Len(c) /\ SubSeq(c, i, i + Len(pat) - 1) = pat}

Least(S) == CHOOSE x \in S : \A y \in S : x <= y

\* the interior of the first block that `open` begins and the next fence ends:
\* <<interior>>, or <<>> when there is no such block
BlockInterior(c, open) ==
    IF StartsOf(c, open) = {} THEN <<>>
    ELSE LET from == Least(StartsOf(c, open)) + Len(open)
             closers == {j \in StartsOf(c, Fence) : j >= from}
         IN IF closers = {} THEN <<>> ELSE <<SubSeq(c, from, Least(closers) - 1)>>

\* the first top-level balanced array of that interior, "" when none
ArrayOfBlock(c, open) ==
    IF BlockInterior(c, open) = <<>> THEN <<>> ELSE FirstArraySpan(BlockInterior(c, open)[1])

FencedFallback ==
    LET c == TrimSpace(content)
    IN /\ scan # <<>> => arr = scan
       /\ scan = <<>> =>
             /\ ArrayOfBlock(c, FenceJSON) # <<>> => arr = ArrayOfBlock(c, FenceJSON)
             /\ (ArrayOfBlock(c, FenceJSON) = <<>> /\ ArrayOfBlock(c, Fence) # <<>>)
                   => arr = ArrayOfBlock(c, Fence)
             /\ arr # <<>> => (BlockInterior(c, FenceJSON) # <<>> \/ BlockInterior(c, Fence) # <<>>)

\* C24: an array found by the scan of the whole reply is returned, whatever the
\* fenced blocks hold; when that scan finds none, the top-level balanced array of
\* the interior of the first block tagged json is returned, and failing that the
\* one of the interior of the first fenced block.
C24_FencedFallback == pphase = "done" => FencedFallback

\* the same over the texts without a rune beyond one byte
FencedFallbackOnASCII ==
    (pphase = "done" /\ \A i \in 1..Len(content) : content[i] # SAcute) => FencedFallback

\* the fallback's case: the scan of the whole reply fails on an unbalanced quote
\* and the array is found in the block tagged json
FencedFallbackReached ==
    /\ pphase = "done" /\ scan = <<>> /\ content # <<>> /\ Head(content) = Quote
    /\ BlockInterior(content, FenceJSON) # <<>>
    /\ arr = <<"[", "]">>

\* the accumulated chunk with a line appended to it (688-691)
AppendLine(acc, line) == IF acc = <<>> THEN line ELSE acc \o <<NL>> \o line

\* the length the boundary test compares with the size: that of the accumulated
\* chunk with the line appended, or, as `counted`, the sum the code computes (685)
TestedLen(acc, line, counted) ==
    IF counted THEN Len(acc) + Len(line) + 1 ELSE Len(AppendLine(acc, line))

\* The chunks of the line-based pass when a new chunk is started before line j
\* exactly when the line is a page-marker line and the tested length exceeds the
\* size.
RECURSIVE ChunksBy(_, _, _, _, _)
ChunksBy(lines, j, size, acc, counted) ==
    IF j > Len(lines) THEN (IF acc = <<>> THEN <<>> ELSE <<acc>>)
    ELSE IF IsPageLine(lines[j]) /\ TestedLen(acc, lines[j], counted) > size
         THEN <<acc>> \o ChunksBy(lines, j + 1, size, lines[j], counted)
         ELSE ChunksBy(lines, j + 1, size, AppendLine(acc, lines[j]), counted)

\* a chunk cut into slices of at most `size` characters
Slices(c, size) ==
    IF Len(c) <= size THEN <<c>>
    ELSE [k \in 1..((Len(c) + size - 1) \div size) |->
             SubSeq(c, (k - 1) * size + 1, Min(k * size, Len(c)))]

RECURSIVE SlicesOfAll(_, _)
SlicesOfAll(cs, size) ==
    IF cs = <<>> THEN <<>> ELSE Slices(Head(cs), size) \o SlicesOfAll(Tail(cs), size)

LineBasedPass == cphase = "done" /\ Len(text) > chunkSize

\* C25: in the line-based pass a new chunk is started before a line exactly when
\* the line's trimmed form begins with the page marker and appending the line to
\* the accumulated chunk would exceed maxChunkSize; the pass has no other chunk
\* boundary.
C25_PageBoundaries ==
    LineBasedPass =>
        finalChunks = SlicesOfAll(ChunksBy(SplitLines(text, <<>>), 1, chunkSize, <<>>, FALSE),
                                  chunkSize)

\* what the code does: the test counts one character for a newline also when the
\* accumulated chunk is empty and no newline is written
C25_BoundariesAsCounted ==
    LineBasedPass =>
        finalChunks = SlicesOfAll(ChunksBy(SplitLines(text, <<>>), 1, chunkSize, <<>>, TRUE),
                                  chunkSize)

\* a page-marker line of exactly maxChunkSize characters met with nothing
\* accumulated: an empty chunk is emitted before it
C25_EmptyChunkEmitted ==
    /\ LineBasedPass /\ Len(finalChunks) = 2
    /\ finalChunks[1] = <<>> /\ Len(finalChunks[2]) = chunkSize /\ IsPageLine(finalChunks[2])
\* the step of a categorization in which the results of a reply are applied
AppliesReply ==
    /\ op = "categorize" /\ cpc = "http" /\ send.st = "ret"
    /\ send.err = NoErr /\ send.reply.form = "array"

\* transaction j (1-based) after such a step: its batch-relative index is
\* j - 1 - 30*b in the b-th batch, the batch being processed
AfterReply(j) ==
    LET b == bi \div 30
        rel == (j - 1) - 30 * b
        results == send.reply.recs
    IN IF rel \in 0..29 /\ ResultsFor(results, rel + 1) # {}
       THEN LET r == LastResultFor(results, rel + 1)
            IN [transactions[j] EXCEPT !.Category = r.category,
                                       !.Subcategory = r.subcategory,
                                       !.Confidence = r.confidence]
       ELSE transactions[j]

BatchesInOrder ==
    op = "categorize" =>
        /\ Len(transactions) > 0
        /\ bi % 30 = 0 /\ bi < Len(transactions)

BatchSteps ==
    /\ (op = "idle" /\ op' = "idle" /\ ret' # ret /\ ret'.op = "categorize") =>
          /\ transactions' = <<>>
          /\ ret'.err = NoErr
          /\ requestsMade' = requestsMade /\ send' = send /\ posts' = posts
    /\ (op = "idle" /\ op' = "categorize") => (bi' = 0 /\ cpc' = "call")
    /\ (op = "categorize" /\ cpc = "call") => (SendBegins /\ cpc' = "http" /\ bi' = bi)
    /\ (op = "categorize" /\ cpc = "http") => (~SendBegins /\ requestsMade' = requestsMade)
    /\ (op = "categorize" /\ bi' # bi) =>
          /\ AppliesReply
          /\ bi' = bi + 30 /\ cpc' = "call" /\ op' = "categorize"
    /\ op = "categorize" =>
          /\ Len(transactions') = Len(transactions)
          /\ \A j \in 1..Len(transactions) :
                transactions'[j] = IF AppliesReply THEN AfterReply(j) ELSE transactions[j]

\* C26: the batches are the contiguous runs of 30 in list order; each attempted
\* batch has one send; a result of index k of the b-th batch changes the
\* transaction at position 30*b + k and no other; an empty list returns success
\* without a send.
C26_Batches == []BatchesInOrder /\ [][BatchSteps]_vars

\* C26's case: 61 transactions in three batches, three sends: index 0 of batch 0,
\* index 29 (and the ignored 30) of batch 1, index 0 of batch 2
C26_Witness ==
    /\ CategorizeReturned /\ ret.err = NoErr
    /\ Len(transactions) = 61 /\ requestsMade = 3
    /\ transactions[1].Subcategory = "Groceries"
    /\ transactions[30] = InputTx(30) /\ transactions[31] = InputTx(31)
    /\ transactions[60].Subcategory = "Coffee"
    /\ transactions[61].Subcategory = "Groceries"

\* a transaction without what categorization sets
Uncategorized(tx) == [tx EXCEPT !.Category = "", !.Subcategory = "", !.Confidence = 0]

AllUncategorized(txs) == \A j \in 1..Len(txs) : txs[j] = Uncategorized(txs[j])

\* during and after a categorization the list is the list handed over, in its
\* order, but for the three fields; what extraction holds and returns is
\* uncategorized
CategorizationFrame ==
    /\ (op = "categorize" \/ CategorizeReturned) =>
          \A j \in 1..Len(transactions) : Uncategorized(transactions[j]) = InputTx(j)
    /\ AllUncategorized(allTransactions) /\ AllUncategorized(rv.txs)
    /\ \A f \in 1..Len(stack) : AllUncategorized(stack[f].leftTx)
    /\ ret.op = "extract" => AllUncategorized(ret.txs)

\* a step of a categorization keeps length, order and the other fields; it
\* changes a transaction only when it applies a reply
CategorizationFrameStep ==
    op = "categorize" =>
        /\ Len(transactions') = Len(transactions)
        /\ \A j \in 1..Len(transactions) :
              Uncategorized(transactions'[j]) = Uncategorized(transactions[j])
        /\ transactions' # transactions => AppliesReply

\* C27: categorization changes category, subcategory and confidence only: date,
\* description, amount, type, balance, raw text and source of every transaction,
\* and the length and order of the list, are as handed over; no step outside
\* categorization sets category or subcategory.
C27_CategorizationFrame == []CategorizationFrame /\ [][CategorizationFrameStep]_vars

\* C27's case: 31 transactions categorized in two batches, the first and the last
\* with a category and a confidence, their other fields as handed over
C27_Witness ==
    /\ CategorizeReturned /\ ret.err = NoErr /\ Len(transactions) = 31
    /\ transactions[1].Category = "Food" /\ transactions[1].Confidence = 95
    /\ transactions[31].Category = "Food"
    /\ transactions[1].Description = <<"in", 1>> /\ transactions[31].Amount = -50

\* the step in which a frame of extraction takes the result of its send
SendReturns == op = "extract" /\ stack # <<>> /\ Top.pc = "call" /\ send.st = "ret"

\* the errors of a send: budget, transport, read, decode, HTTP status
SendErrors == {"limit", "transport", "read", "decode", "status"}

FailedSendStep ==
    /\ (SendReturns /\ send.err # NoErr) =>
          /\ send.err \in SendErrors
          /\ stack' = Pop
          /\ rv' = Rv(<<>>, send.err)
          /\ requestsMade' = requestsMade /\ posts' = posts
    /\ (stack # <<>> /\ Len(stack') > Len(stack) /\ Top.pc = "call") =>
          /\ SendReturns /\ send.err = NoErr
          /\ parseExtractionResponse(send.reply, source).err # NoErr
    /\ (op = "extract" /\ stack = <<>> /\ rv.valid /\ rv.err # NoErr) =>
          /\ op' = "idle"
          /\ ret' = [op |-> "extract", txs |-> <<>>, err |-> rv.err]
    /\ (LeftHalfReturns /\ rv.err # NoErr) =>
          /\ stack'[Len(stack)].leftTx = <<>>
          /\ Len(stack') = Len(stack) + 1
    /\ (RightHalfReturns /\ rv.err # NoErr) => rv'.txs = Top.leftTx

\* C28: a send that fails (budget, transport, read, decode, status) ends its
\* chunk without a bisection and without another send; a bisection follows only
\* a received reply that fails to parse; the failure of the outermost chunk is
\* returned to the caller, that of a half makes the half contribute nothing.
C28_FailedSendNoBisection ==
    /\ [](rv.valid /\ rv.err # NoErr => rv.txs = <<>>)
    /\ [][FailedSendStep]_vars

\* C28's case: the reply for a chunk of 12,001 characters did not parse, and the
\* send for its left half was rejected for budget: the half returned the error
\* and no transactions, the chunk waits to enter its right half
C28_Witness ==
    /\ op = "extract" /\ Len(stack) = 1 /\ Top.pc = "left" /\ LenOf(Top) = 12001
    /\ rv.valid /\ rv.err = "limit" /\ rv.txs = <<>>
    /\ requestsMade = 1

\* the waits of the current send against its attempts
BackoffSchedule ==
    /\ \A k \in 1..Len(waits) : waits[k] = k * 2 /\ trace[k] \in RetryableOutcomes
    /\ \A k \in 1..(Len(waits) - 1) : waits[k] < waits[k + 1]
    /\ Len(waits) <= 2
    /\ send.st = "http" => Len(waits) = send.attempt - 1 /\ Len(trace) = Len(waits)
    /\ (send.st = "ret" /\ send.attempt >= 1) =>
           Len(waits) = send.attempt - 1 /\ Len(trace) = Len(waits) + 1
    /\ (send.st = "none" \/ send.attempt = 0) => waits = <<>>

\* a wait is made only by an attempt that failed retryably and is followed by
\* the next attempt
BackoffStep ==
    (waits' # waits /\ waits' # <<>>) =>
        /\ send.st = "http" /\ send'.st = "http"
        /\ send'.attempt = send.attempt + 1 /\ send'.attempt <= 3
        /\ trace' # <<>> /\ trace'[Len(trace')] \in RetryableOutcomes
        /\ waits' = Append(waits, 2 * send.attempt)

\* C29: within one send the wait before attempt k+1 is 2k seconds, so the waits
\* strictly increase; a wait is made only between a retryable failure and the
\* next attempt, never before attempt 1 and never after the last attempt.
C29_Backoff == []BackoffSchedule /\ [][BackoffStep]_vars

\* C29's case: a send of three attempts, all failed retryably: waits of 2 s and
\* 4 s, and none after the third attempt
C29_Witness ==
    /\ send.st = "ret" /\ send.attempt = 3 /\ send.err = "status"
    /\ trace = <<"s429", "timeout", "s500">> /\ waits = <<2, 4>>

\* a call is running; a call has returned
Running == op # "idle"
Returned == op = "idle" /\ ret # NoRet

\* the sends and attempts made so far by the one call on a new Analyzer
SendsBounded ==
    /\ send.attempt <= 3 /\ Len(trace) <= 3
    /\ posts <= 3 * requestsMade
    /\ op = "extract" => requestsMade <= 15 * ci
    /\ (Returned /\ ret.op = "extract") => requestsMade <= 15 * Len(chunks)
    /\ op = "categorize" =>
          requestsMade <= (IF cpc = "call" THEN bi \div 30 ELSE bi \div 30 + 1)
    /\ (Returned /\ ret.op = "categorize") =>
          requestsMade <= (Len(transactions) + 29) \div 30

\* C30: a call of ExtractTransactionsFromText or CategorizeTransactions returns,
\* whatever the service answers and whichever attempts time out; extraction
\* makes at most 15 sends per chunk, categorization at most one per batch, and
\* a send at most 3 HTTP attempts.
C30_Terminates == []SendsBounded /\ (Running ~> Returned)

\* C30's case: the extraction of one chunk of 48,000 characters has returned
\* after 15 sends of three attempts each
C30_Witness ==
    /\ Returned /\ ret.op = "extract" /\ chunks = <<48000>>
    /\ requestsMade = 15 /\ posts = 45

\* the span the scanner returned opens with '[' and closes with ']'
Bracketed(span) == Head(span) = "[" /\ span[Len(span)] = "]"

\* C31 (as claimed): whenever the array scanner reports success, on any text,
\* non-ASCII characters included, the span it returns starts with '[' and ends
\* with ']', and only the text's own '[', ']', quote and backslash characters
\* moved its depth and string state: the span is the first top-level balanced
\* span of the text.
C31_ScannerSpan ==
    (pphase = "done" /\ scan # <<>>) =>
        /\ Bracketed(scan)
        /\ scan = FirstArraySpan(TrimSpace(content))

\* the same over the texts without a rune beyond one byte
ScannerSpanOnASCII ==
    (\A i \in 1..Len(content) : content[i] # SAcute) => C31_ScannerSpan

\* the scanner has reported success on a text with U+015B inside a string literal
ScannerSpanReached ==
    /\ pphase = "done" /\ scan # <<>> /\ Bracketed(scan)
    /\ \E i \in 1..Len(scan) : scan[i] = SAcute

\* the records of a reply that are kept: those whose date is YYYY-MM-DD
RECURSIVE DatedRecs(_)
DatedRecs(recs) ==
    IF recs = <<>> THEN <<>>
    ELSE (IF Head(recs).date = "2025-01-15" THEN <<Head(recs)>> ELSE <<>>)
            \o DatedRecs(Tail(recs))

\* the amounts of the records typed "credit", and of all the others
CreditAmounts(recs) ==
    [j \in 1..Len(recs) |-> IF recs[j].type = "credit" THEN recs[j].amount ELSE 0]
OtherAmounts(recs) ==
    [j \in 1..Len(recs) |-> IF recs[j].type = "credit" THEN 0 ELSE recs[j].amount]

TypesAndTotals ==
    LET recs == DatedRecs(received[1].recs)
    IN /\ Len(sumTxs) = Len(recs)
       /\ \A j \in 1..Len(recs) :
             /\ sumTxs[j].Type = (IF recs[j].type = "credit" THEN "Credit" ELSE "Debit")
             /\ sumTxs[j].Amount = recs[j].amount
       /\ sphase = "done" =>
             /\ summary.TotalIncome = SumSeq(CreditAmounts(recs))
             /\ summary.TotalExpenses = SumSeq(OtherAmounts(recs))

\* C32: a record gets the type credit exactly when its type string is "credit";
\* every other string (debit, empty or missing, differently cased) gives debit,
\* whatever the sign of the amount; calculateSummary adds the amount of a credit
\* to total income and the amount of every other transaction to total expenses.
C32_TypesAndTotals == sphase \in {"input", "done"} => TypesAndTotals

\* C32's case: a reply of a record typed "Credit" with amount 200 and a record
\* typed "credit" with amount -50: the first counted as an expense of 200, the
\* second as an income of -50
C32_Witness ==
    /\ sphase = "done" /\ Len(sumTxs) = 2
    /\ received[1].recs[1].type = "Credit" /\ received[1].recs[2].type = "credit"
    /\ sumTxs[1].Type = Debit /\ sumTxs[2].Type = Credit
    /\ summary.TotalExpenses = 200 /\ summary.TotalIncome = -50

====
